---------------------------- MODULE Spec2Model ----------------------------
(***************************************************************************)
(* The decoupled fetch front-end of scarab (src/src/decoupled_frontend.cc):*)
(* the fetch target queue (FTQ), the fetch target (FT) builder, the FT in  *)
(* use by the consumer, the FTQ iterators, recovery and the adaptive FTQ   *)
(* depth controller.                                                       *)
(*                                                                         *)
(* Every per_core_* vector of the source is a function over Cores.  An Op* *)
(* is an op record whose field id is the allocation number of the op (the  *)
(* identity of the pointer).  C++ indexes from 0 and TLA+ sequences from   *)
(* 1: the cursor op_pos and the iterator positions keep their C++ values,  *)
(* and ops[k] of the source is ops[k + 1] here.                            *)
(***************************************************************************)
EXTENDS Integers, Sequences, FiniteSets, TLC

VARIABLES
  \* ---- configuration parameters (globals set once from the PARAMS file)
  FE_FTQ_BLOCK_NUM, UFTQ_MIN_FTQ_BLOCK_NUM, UFTQ_MAX_FTQ_BLOCK_NUM,
  FDIP_ADJUSTABLE_FTQ, FDIP_BP_CONFIDENCE, FE_FTQ_TAKEN_CFS_PER_CYCLE,
  FE_FTQ_BYTES_PER_CYCLE, ICACHE_LINE_SIZE, trace_mode,
  \* ---- state of decoupled_frontend.cc
  per_core_ftq, per_core_current_ft_to_push, per_core_current_ft_in_use,
  per_core_off_path, per_core_sched_off_path, per_core_op_count,
  per_core_ftq_iterators, per_core_recovery_addr, per_core_redirect_cycle,
  per_core_stalled, per_core_ftq_ft_num, per_core_utility_timeliness_info,
  set_proc_id, fwd_progress,
  \* ---- the heap: the allocations per_core_ftq_iterators[p] has lived in
  iterators_storage,
  \* ---- collaborators: the simulator clock, the external front-end, the op pool
  cycle_count, fe_next_addr, op_pool,
  \* ---- observation: whether an ASSERT has aborted the simulator, what the
  \* last call was and returned, and the log of the ops stamped and delivered
  \* since the last recovery
  aborted, last, op_log

params == <<FE_FTQ_BLOCK_NUM, UFTQ_MIN_FTQ_BLOCK_NUM, UFTQ_MAX_FTQ_BLOCK_NUM,
            FDIP_ADJUSTABLE_FTQ, FDIP_BP_CONFIDENCE, FE_FTQ_TAKEN_CFS_PER_CYCLE,
            FE_FTQ_BYTES_PER_CYCLE, ICACHE_LINE_SIZE, trace_mode>>

fe_state == <<per_core_ftq, per_core_current_ft_to_push,
              per_core_current_ft_in_use, per_core_off_path,
              per_core_sched_off_path, per_core_op_count,
              per_core_ftq_iterators, per_core_recovery_addr,
              per_core_redirect_cycle, per_core_stalled, per_core_ftq_ft_num,
              per_core_utility_timeliness_info, set_proc_id, fwd_progress,
              iterators_storage>>

vars == <<params, fe_state, cycle_count, fe_next_addr, op_pool, aborted, last,
          op_log>>

-----------------------------------------------------------------------------
(* Bounds of the model. *)

\* ops allocated in one behaviour
MaxOps == 3
\* cycles simulated in one behaviour: the producer ticks once per cycle
MaxCycle == 2
\* calls of update_decoupled_fe in a row that produce no op which the
\* specifications follow; SpecWatchdog follows all that the watchdog allows
MaxIdle == 1
\* the same in SpecLive
LiveIdle == 3
\* iterators registered per core
MaxIters == 2
\* ops allocated in one behaviour of SpecHandles
HandleOps == 2
\* cycles simulated where the producer never leaves the path: there
\* per_core_redirect_cycle stays 0 and every cycle after the first is like it
OnPathCycles == 1

Cores == {0, 1}

-----------------------------------------------------------------------------
(* Small helpers. *)

RECURSIVE Flatten(_)
Flatten(ss) == IF ss = <<>> THEN <<>> ELSE Head(ss) \o Flatten(Tail(ss))

Ids(ops) == [i \in 1..Len(ops) |-> ops[i].id]

-----------------------------------------------------------------------------
(* FT: the fetch target and its API. *)

FT_Ended_By == {"FT_ENDED_BY_INIT", "FT_ICACHE_LINE_BOUNDARY", "FT_TAKEN_BRANCH",
                "FT_BAR_FETCH", "FT_APP_EXIT"}

\* FT(): a value-initialised FT
FT == [ops |-> <<>>, op_pos |-> 0, start |-> 0, length |-> 0,
       ended_by |-> "FT_ENDED_BY_INIT"]

\* FT::ft_add_op without its ASSERTs on the address of the op
ft_add_op_asserts_no_addr(ft, op, ft_ended_by) ==
  /\ ft.ops = <<>> => op.bom /\ ft.start = 0
  /\ ft_ended_by # "FT_ENDED_BY_INIT" =>
       /\ op.eom /\ ft.length = 0
       /\ (IF ft.ops = <<>> THEN op.addr ELSE ft.start) # 0
       /\ ft.ended_by = "FT_ENDED_BY_INIT"

\* The ASSERTs of FT::ft_add_op: TRUE when none of them fires.
ft_add_op_asserts(ft, op, ft_ended_by) ==
  /\ IF ft.ops = <<>>
       THEN op.bom /\ ft.start = 0
       ELSE LET back == ft.ops[Len(ft.ops)]
            IN  IF op.bom THEN back.addr + back.size = op.addr
                          ELSE back.addr = op.addr
  /\ ft_ended_by # "FT_ENDED_BY_INIT" =>
       /\ op.eom /\ ft.length = 0
       /\ (IF ft.ops = <<>> THEN op.addr ELSE ft.start) # 0
       /\ ft.ended_by = "FT_ENDED_BY_INIT"

\* an ft_add_op whose length leaves out the closing op
ft_add_op_without_closing_op(ft, op, ft_ended_by) ==
  LET start == IF ft.ops = <<>> THEN op.addr ELSE ft.start
      closes == ft_ended_by # "FT_ENDED_BY_INIT"
  IN  [ft EXCEPT !.ops = Append(ft.ops, op),
                 !.start = start,
                 !.length = IF closes THEN op.addr - start ELSE ft.length,
                 !.ended_by = IF closes THEN ft_ended_by ELSE ft.ended_by]

\* FT::ft_add_op, when no ASSERT fires
ft_add_op(ft, op, ft_ended_by) ==
  LET start == IF ft.ops = <<>> THEN op.addr ELSE ft.start
      closes == ft_ended_by # "FT_ENDED_BY_INIT"
  IN  [ft EXCEPT !.ops = Append(ft.ops, op),
                 !.start = start,
                 !.length = IF closes THEN op.addr + op.size - start
                            ELSE ft.length,
                 !.ended_by = IF closes THEN ft_ended_by ELSE ft.ended_by]

\* an ft_free_ops_and_clear that frees the ops of the FT from its first op
ft_free_ops_from_first(ft) == Ids(ft.ops)

\* an ft_free_ops_and_clear that starts one op after the read cursor
ft_free_ops_after_cursor(ft) == Ids(SubSeq(ft.ops, ft.op_pos + 2, Len(ft.ops)))

\* FT::ft_free_ops_and_clear: the ops handed to free_op, in order
ft_free_ops(ft) ==
  IF ft.op_pos < Len(ft.ops)
    THEN Ids(SubSeq(ft.ops, ft.op_pos + 1, Len(ft.ops)))
    ELSE <<>>

\* an ft_free_ops_and_clear that does not rewind the read cursor
ft_free_ops_and_clear_keeps_cursor(ft) ==
  [ops |-> <<>>, op_pos |-> ft.op_pos, start |-> 0, length |-> 0,
   ended_by |-> "FT_ENDED_BY_INIT"]

\* FT::ft_free_ops_and_clear: the FT it leaves
ft_free_ops_and_clear(ft) ==
  [ops |-> <<>>, op_pos |-> 0, start |-> 0, length |-> 0,
   ended_by |-> "FT_ENDED_BY_INIT"]

ft_can_fetch_op(ft) == ft.op_pos < Len(ft.ops)

\* FT::ft_fetch_op: [ret, op, end_of_ft, ft]; op is 0 when nothing is fetched
ft_fetch_op(ft) ==
  IF ft.op_pos < Len(ft.ops)
    THEN [ret |-> TRUE, op |-> ft.ops[ft.op_pos + 1].id,
          end_of_ft |-> (ft.op_pos + 1 = Len(ft.ops)),
          ft |-> [ft EXCEPT !.op_pos = ft.op_pos + 1]]
    ELSE [ret |-> FALSE, op |-> 0, end_of_ft |-> FALSE, ft |-> ft]

\* an ft_return_op that checks the read cursor and not the op
ft_return_op_asserts_cursor(ft, op) == ft.op_pos # 0

\* The ASSERTs of FT::ft_return_op; op is the id of the returned op
ft_return_op_asserts(ft, op) ==
  /\ ft.op_pos # 0
  /\ op = ft.ops[ft.op_pos].id

\* an ft_return_op that checks the op and leaves the read cursor where it is
ft_return_op_keeps_cursor(ft, op) == ft

\* FT::ft_return_op, when no ASSERT fires
ft_return_op(ft, op) == [ft EXCEPT !.op_pos = ft.op_pos - 1]

-----------------------------------------------------------------------------
(* Ops, as the external front-end, the branch predictor and the oracle     *)
(* hand them to the producer.  A descriptor is what frontend_fetch_op and  *)
(* bp_predict_op fill in: everything but the address, which the front-end  *)
(* derives from its next fetch address (jmp # 0: the front-end yields the  *)
(* op at address jmp instead, a discontinuity of the instruction stream).  *)

D(size, bom, eom, cf_type, bar_fetch, exit, pred_taken, rad, rae, jmp, tgt) ==
  [size |-> size, bom |-> bom, eom |-> eom, cf_type |-> cf_type,
   bar_fetch |-> bar_fetch, exit |-> exit, pred_taken |-> pred_taken,
   recover_at_decode |-> rad, recover_at_exec |-> rae, jmp |-> jmp, tgt |-> tgt]

K_plain   == D(4, TRUE,  TRUE,  "NOT_CF", FALSE, FALSE, FALSE, FALSE, FALSE, 0, 0)
K_uop1    == D(4, TRUE,  FALSE, "NOT_CF", FALSE, FALSE, FALSE, FALSE, FALSE, 0, 0)
K_uop2    == D(4, FALSE, TRUE,  "NOT_CF", FALSE, FALSE, FALSE, FALSE, FALSE, 0, 0)
K_br_nt   == D(4, TRUE,  TRUE,  "CF_CBR", FALSE, FALSE, FALSE, FALSE, FALSE, 0, 0)
K_br_t    == D(4, TRUE,  TRUE,  "CF_CBR", FALSE, FALSE, TRUE,  FALSE, FALSE, 0, 32)
K_mis_ex  == D(4, TRUE,  TRUE,  "CF_CBR", FALSE, FALSE, TRUE,  FALSE, TRUE,  0, 32)
K_mis_dec == D(4, TRUE,  TRUE,  "CF_CBR", FALSE, FALSE, FALSE, TRUE,  FALSE, 0, 0)
K_bar     == D(4, TRUE,  TRUE,  "NOT_CF", TRUE,  FALSE, FALSE, FALSE, FALSE, 0, 0)
K_bar_uop == D(4, TRUE,  FALSE, "NOT_CF", TRUE,  FALSE, FALSE, FALSE, FALSE, 0, 0)
K_sys     == D(4, TRUE,  TRUE,  "CF_SYS", FALSE, FALSE, TRUE,  FALSE, TRUE,  0, 32)
K_exit    == D(4, TRUE,  TRUE,  "NOT_CF", FALSE, TRUE,  FALSE, FALSE, FALSE, 0, 0)
K_jump    == D(4, TRUE,  TRUE,  "NOT_CF", FALSE, FALSE, FALSE, FALSE, FALSE, 40, 0)
K_sys_exit == D(4, TRUE, TRUE,  "CF_SYS", FALSE, TRUE,  TRUE,  FALSE, FALSE, 0, 32)
K_br_far  == D(4, TRUE,  TRUE,  "CF_CBR", FALSE, FALSE, TRUE,  FALSE, FALSE, 0, 12288)

K_long    == D(6, TRUE,  TRUE,  "NOT_CF", FALSE, FALSE, FALSE, FALSE, FALSE, 0, 0)
\* IS_CALLSYS of isa/isa_macros.h: the op is a system call
IS_CALLSYS(op) == op.cf_type = "CF_SYS"

\* a ROUND_DOWN that lands one line below the line of addr
round_down_line_below(addr, align) == addr - (addr % align) - align

\* ROUND_DOWN(addr, ICACHE_LINE_SIZE)
ROUND_DOWN(addr, align) == addr - (addr % align)

\* a stat event that is always counted on-path
path_stat_on_path(name, off) == <<name, "ONPATH">>

\* a stat event that has an on-path and an off-path variant
PathStat(name, off) == <<name, IF off THEN "OFFPATH" ELSE "ONPATH">>

\* alloc_op: the pool with one more op; its id is the new length
alloc_op(pool) == Append(pool, [frees |-> 0, out |-> FALSE, dropped |-> FALSE])

\* free_op on each of the ops ids, in order
RECURSIVE free_ops(_, _)
free_ops(pool, ids) ==
  IF ids = <<>> THEN pool
  ELSE free_ops([pool EXCEPT ![Head(ids)].frees = @ + 1], Tail(ids))

-----------------------------------------------------------------------------
(* update_decoupled_fe: the producer tick.  st is the state of the call:   *)
(* the active core's fields, the locals bytes_this_cycle,                  *)
(* cfs_taken_this_cycle and cf_num, what the collaborators will answer    *)
(* (feed: the ops the external front-end can yield, pred_iters: for how   *)
(* many iterations bp_is_predictable answers true), and the events emitted.*)

\* a termination reason that ranks the taken branch above the fetch barrier
ft_ended_by_taken_first(op, line_size) ==
  IF ~op.eom THEN "FT_ENDED_BY_INIT"
  ELSE IF op.exit THEN "FT_APP_EXIT"
  ELSE IF op.cf_type # "NOT_CF" /\ op.pred_taken THEN "FT_TAKEN_BRANCH"
  ELSE IF IS_CALLSYS(op) \/ op.bar_fetch THEN "FT_BAR_FETCH"
  ELSE IF (op.addr + op.size) - ROUND_DOWN(op.addr, line_size) >= line_size
    THEN "FT_ICACHE_LINE_BOUNDARY"
  ELSE "FT_ENDED_BY_INIT"

\* a termination reason that closes the FT only when the instruction goes
\* past the end of its line
ft_ended_by_past_line(op, line_size) ==
  IF ~op.eom THEN "FT_ENDED_BY_INIT"
  ELSE IF op.exit THEN "FT_APP_EXIT"
  ELSE IF IS_CALLSYS(op) \/ op.bar_fetch THEN "FT_BAR_FETCH"
  ELSE IF op.cf_type # "NOT_CF" /\ op.pred_taken THEN "FT_TAKEN_BRANCH"
  ELSE IF (op.addr + op.size) - ROUND_DOWN(op.addr, line_size) > line_size
    THEN "FT_ICACHE_LINE_BOUNDARY"
  ELSE "FT_ENDED_BY_INIT"

\* the FT termination reason of lines 344-360
ft_ended_by_of(op, line_size) ==
  IF ~op.eom THEN "FT_ENDED_BY_INIT"
  ELSE LET offset == (op.addr + op.size) - ROUND_DOWN(op.addr, line_size)
           end_of_icache_line == offset >= line_size
           cf_taken == op.cf_type # "NOT_CF" /\ op.pred_taken
           bar_fetch == IS_CALLSYS(op) \/ op.bar_fetch
       IN  IF op.exit THEN "FT_APP_EXIT"
           ELSE IF bar_fetch THEN "FT_BAR_FETCH"
           ELSE IF cf_taken THEN "FT_TAKEN_BRANCH"
           ELSE IF end_of_icache_line THEN "FT_ICACHE_LINE_BOUNDARY"
           ELSE "FT_ENDED_BY_INIT"

\* a recovery sanity check that leaves the recovery address pending
recovery_addr_kept(recovery_addr) == recovery_addr

\* lines 386-389: the pending recovery address after the sanity check
recovery_addr_after_op(recovery_addr) == 0

\* a recover flag that a mispredicted branch keeps when already off-path
scheduled_recovery_off_path(flag, off_path) == flag

\* lines 319-322: the recover flag of a mispredicted branch; none is left
\* when the producer is already off-path
scheduled_recovery(flag, off_path) == IF off_path THEN FALSE ELSE flag

\* a trace-mode redirect that leaves out system calls and fetch barriers
redirects_off_path_unless_barrier(d, off_path) ==
  trace_mode /\ off_path /\ d.pred_taken /\ ~(d.bar_fetch \/ d.cf_type = "CF_SYS")

\* line 328: a control-flow op without a scheduled recovery is redirected
\* when the producer is off-path in trace mode and the op is predicted taken
redirects_off_path(d, off_path) == trace_mode /\ off_path /\ d.pred_taken

\* lines 556-561: decoupled_fe_stall sets the stall flag of the active core;
\* the producer calls it at lines 311 and 336
decoupled_fe_stall(stalled) == TRUE

\* lines 287-389: one op is fetched, predicted, appended and maybe pushed
produce_op(st) ==
  LET d == Head(st.feed)
      addr == IF d.jmp # 0 THEN d.jmp ELSE st.fe_next
      id == Len(st.pool) + 1
      is_cf == d.cf_type # "NOT_CF"
      barrier == d.bar_fetch \/ d.cf_type = "CF_SYS"
      pred_addr == IF ~is_cf THEN 3
                   ELSE IF d.pred_taken THEN d.tgt ELSE addr + d.size
      \* lines 308-312: a barrier control-flow op loses its recover flags
      rad1 == IF is_cf /\ barrier THEN FALSE ELSE d.recover_at_decode
      rae1 == IF is_cf /\ barrier THEN FALSE ELSE d.recover_at_exec
      mispred == is_cf /\ (rad1 \/ rae1)
      \* lines 319-322: already off-path, no recovery is scheduled
      rad2 == IF mispred THEN scheduled_recovery(rad1, st.off_path) ELSE rad1
      rae2 == IF mispred THEN scheduled_recovery(rae1, st.off_path) ELSE rae1
      redirect == \/ mispred
                  \/ is_cf /\ ~mispred /\ redirects_off_path(d, st.off_path)
      off2 == IF mispred THEN TRUE ELSE st.off_path
      stall2 == IF barrier THEN decoupled_fe_stall(st.stalled) ELSE st.stalled
      op == [id |-> id, addr |-> addr, size |-> d.size, bom |-> d.bom,
             eom |-> d.eom, cf_type |-> d.cf_type, bar_fetch |-> d.bar_fetch,
             exit |-> d.exit, pred_taken |-> d.pred_taken,
             recover_at_decode |-> rad2, recover_at_exec |-> rae2,
             off_path |-> st.off_path, op_num |-> st.op_count]
      ended == ft_ended_by_of(op, ICACHE_LINE_SIZE)
      counted == op.eom /\ ((is_cf /\ op.pred_taken) \/ IS_CALLSYS(op) \/ op.bar_fetch)
      cur1 == ft_add_op(st.cur, op, ended)
      closes == ended # "FT_ENDED_BY_INIT"
      asserts == /\ is_cf => d.eom
                 /\ mispred => ~(rad1 /\ rae1)
                 /\ ~is_cf => ~(d.recover_at_decode \/ d.recover_at_exec)
                 /\ ft_add_op_asserts(st.cur, op, ended)
                 /\ closes => cur1.start # 0 /\ cur1.length # 0 /\ Len(cur1.ops) # 0
                 /\ st.recovery_addr # 0 => st.recovery_addr = addr
  IN  IF ~asserts THEN [st EXCEPT !.aborted = TRUE]
      ELSE [st EXCEPT
        !.feed = Tail(st.feed),
        !.pred_iters = IF st.pred_iters > 0 THEN st.pred_iters - 1 ELSE 0,
        !.fwd = 0,
        !.pool = alloc_op(st.pool),
        !.op_count = st.op_count + 1,
        !.cf_num = IF is_cf THEN st.cf_num + 1 ELSE st.cf_num,
        !.off_path = off2,
        !.stalled = stall2,
        !.redirect_cycle = IF mispred THEN cycle_count ELSE st.redirect_cycle,
        !.fe_next = IF redirect \/ is_cf THEN pred_addr
                    ELSE IF d.eom THEN addr + d.size ELSE addr,
        !.bytes = IF op.eom THEN st.bytes + op.size ELSE st.bytes,
        !.cfs = IF counted THEN st.cfs + 1 ELSE st.cfs,
        !.cur = IF closes THEN FT ELSE cur1,
        !.ftq = IF closes THEN Append(st.ftq, cur1) ELSE st.ftq,
        !.recovery_addr = recovery_addr_after_op(st.recovery_addr),
        !.produced = Append(st.produced, op),
        !.events = st.events
                   \o (IF redirect THEN << <<"frontend_redirect", pred_addr>> >>
                       ELSE <<>>)
                   \o << PathStat("FTQ_FETCHED_INS", off2) >>]

\* a chain of break tests that stops only above the byte budget
loop_break_bytes_over(st) ==
  IF Len(st.ftq) = st.ftq_ft_num THEN "FTQ_BREAK_FULL_FT"
  ELSE IF st.cfs = FE_FTQ_TAKEN_CFS_PER_CYCLE THEN "FTQ_BREAK_MAX_CFS_TAKEN"
  ELSE IF st.bytes > FE_FTQ_BYTES_PER_CYCLE THEN "FTQ_BREAK_MAX_BYTES"
  ELSE IF st.pred_iters = 0 THEN "FTQ_BREAK_PRED_BR"
  ELSE IF st.stalled THEN "FTQ_BREAK_BAR_FETCH"
  ELSE IF st.feed = <<>> THEN "Warning could not fetch inst from frontend"
  ELSE "none"

\* a chain of break tests that looks at the fetch-barrier stall first
loop_break_stall_first(st) ==
  IF st.stalled THEN "FTQ_BREAK_BAR_FETCH"
  ELSE IF Len(st.ftq) = st.ftq_ft_num THEN "FTQ_BREAK_FULL_FT"
  ELSE IF st.cfs = FE_FTQ_TAKEN_CFS_PER_CYCLE THEN "FTQ_BREAK_MAX_CFS_TAKEN"
  ELSE IF st.bytes >= FE_FTQ_BYTES_PER_CYCLE THEN "FTQ_BREAK_MAX_BYTES"
  ELSE IF st.pred_iters = 0 THEN "FTQ_BREAK_PRED_BR"
  ELSE IF st.feed = <<>> THEN "Warning could not fetch inst from frontend"
  ELSE "none"

\* lines 241-285: the break the iteration ends the loop on, "none" when the
\* iteration goes on to fetch an op
loop_break(st) ==
  IF Len(st.ftq) = st.ftq_ft_num THEN "FTQ_BREAK_FULL_FT"
  ELSE IF st.cfs = FE_FTQ_TAKEN_CFS_PER_CYCLE THEN "FTQ_BREAK_MAX_CFS_TAKEN"
  ELSE IF st.bytes >= FE_FTQ_BYTES_PER_CYCLE THEN "FTQ_BREAK_MAX_BYTES"
  ELSE IF st.pred_iters = 0 THEN "FTQ_BREAK_PRED_BR"
  ELSE IF st.stalled THEN "FTQ_BREAK_BAR_FETCH"
  ELSE IF st.feed = <<>> THEN "Warning could not fetch inst from frontend"
  ELSE "none"

\* lines 237-390: the while (1) loop
RECURSIVE update_loop(_)
update_loop(st) ==
  LET b == loop_break(st)
  IN  IF ~(Len(st.ftq) <= st.ftq_ft_num) \/ ~(st.cfs <= FE_FTQ_TAKEN_CFS_PER_CYCLE)
        THEN [st EXCEPT !.aborted = TRUE]
      ELSE IF b = "Warning could not fetch inst from frontend"
        THEN [st EXCEPT !.events = Append(st.events, <<b>>)]
      ELSE IF b # "none"
        THEN [st EXCEPT !.events = Append(st.events, PathStat(b, st.off_path))]
      ELSE LET st1 == produce_op(st)
           IN  IF st1.aborted THEN st1 ELSE update_loop(st1)

FWD_PROGRESS_LIMIT == 100000

\* the state of a call of update_decoupled_fe() on the active core
tick_state(feed, pred_iters) ==
  LET p == set_proc_id
  IN  [ftq |-> per_core_ftq[p], cur |-> per_core_current_ft_to_push[p],
       off_path |-> per_core_off_path[p], op_count |-> per_core_op_count[p],
       stalled |-> per_core_stalled[p],
       recovery_addr |-> per_core_recovery_addr[p],
       redirect_cycle |-> per_core_redirect_cycle[p],
       ftq_ft_num |-> per_core_ftq_ft_num[p],
       fwd |-> fwd_progress + 1, fe_next |-> fe_next_addr[p],
       pool |-> op_pool, feed |-> feed, pred_iters |-> pred_iters,
       bytes |-> 0, cfs |-> 0, cf_num |-> 0, produced |-> <<>>,
       events |-> << PathStat("FTQ_CYCLES", per_core_off_path[p]) >>,
       aborted |-> FALSE]

\* update_decoupled_fe() on the active core, with the collaborators' answers
update_decoupled_fe(feed, pred_iters) ==
  IF fwd_progress + 1 >= FWD_PROGRESS_LIMIT
    THEN [tick_state(feed, pred_iters) EXCEPT !.aborted = TRUE]
    ELSE update_loop(tick_state(feed, pred_iters))

\* The answers of the collaborators that a call consumes in full, from the
\* loop state st on: having yielded the ops of prefix, either the predictor
\* is not predictable (pred_iters = Len(prefix)) or the external front-end
\* cannot fetch, or, while fewer than room ops are yielded, the front-end
\* yields one more op, of a kind of K.  Any other answer leads the call to
\* the same result as one of these.
RECURSIVE tick_inputs(_, _, _, _)
tick_inputs(st, K, prefix, room) ==
  LET n == Len(prefix)
      probe == update_loop([st EXCEPT !.feed = <<>>, !.pred_iters = 1])
      fetches == /\ ~probe.aborted
                 /\ probe.events[Len(probe.events)]
                      = <<"Warning could not fetch inst from frontend">>
  IN  {[feed |-> prefix, pred_iters |-> n], [feed |-> prefix, pred_iters |-> n + 1]}
      \cup
      (IF fetches /\ room > 0
         THEN UNION {
           LET st1 == produce_op([st EXCEPT !.feed = <<k>>, !.pred_iters = 1])
           IN  IF st1.aborted
                 THEN {[feed |-> Append(prefix, k), pred_iters |-> n + 1]}
                 ELSE tick_inputs(st1, K, Append(prefix, k), room - 1) : k \in K}
         ELSE {})

-----------------------------------------------------------------------------
(* The consumer interface. *)

decoupled_fe_can_fetch_ft(proc_id) == Len(per_core_ftq[proc_id]) > 0

\* a can_fetch_op that looks at the FTQ alone
can_fetch_op_ftq_only(proc_id) == decoupled_fe_can_fetch_ft(proc_id)

decoupled_fe_can_fetch_op(proc_id) ==
  \/ ft_can_fetch_op(per_core_current_ft_in_use[proc_id])
  \/ decoupled_fe_can_fetch_ft(proc_id)

\* lines 442-458: the ASSERTs on one iterator when an FT of n ops is popped
rebase_asserts(it, n) ==
  /\ (FDIP_BP_CONFIDENCE /\ it.ft_pos = 0 /\ it.op_pos = 0) => it.flattened_op_pos = 0
  /\ IF it.ft_pos > 0 THEN it.flattened_op_pos >= n ELSE it.flattened_op_pos < n

\* a rebase that leaves an iterator standing on the popped FT where it was
rebase_no_reset(it, n) ==
  IF it.ft_pos > 0
    THEN [it EXCEPT !.flattened_op_pos = it.flattened_op_pos - n,
                    !.ft_pos = it.ft_pos - 1]
    ELSE it

\* a rebase that leaves the flattened position of an iterator past the
\* popped FT as it was
rebase_keeps_flattened(it, n) ==
  IF it.ft_pos > 0
    THEN [it EXCEPT !.ft_pos = it.ft_pos - 1]
    ELSE [it EXCEPT !.flattened_op_pos = 0, !.op_pos = 0]

\* lines 448-457: one iterator after an FT of n ops is popped
rebase(it, n) ==
  IF it.ft_pos > 0
    THEN [it EXCEPT !.flattened_op_pos = it.flattened_op_pos - n,
                    !.ft_pos = it.ft_pos - 1]
    ELSE [it EXCEPT !.flattened_op_pos = 0, !.op_pos = 0]

\* decoupled_fe_fetch_ft(proc_id) on a non-empty FTQ: what it leaves in the
\* FTQ, the in-use FT and the iterators of the core, what it returns and
\* whether its ASSERTs pass
decoupled_fe_fetch_ft(proc_id) ==
  LET ft == Head(per_core_ftq[proc_id])
      n == Len(ft.ops)
      its == per_core_ftq_iterators[proc_id]
  IN  [asserts |-> \A i \in 1..Len(its) : rebase_asserts(its[i], n),
       ftq |-> Tail(per_core_ftq[proc_id]),
       in_use |-> ft,
       iters |-> [i \in 1..Len(its) |-> rebase(its[i], n)],
       ft_start |-> ft.start, ft_length |-> ft.length,
       \* lines 443-446: one call of fdip_set_cur_op for each iterator that
       \* stands at the head of the FTQ, in the order of the iterators
       events |-> Flatten([i \in 1..Len(its) |->
                    IF FDIP_BP_CONFIDENCE /\ its[i].ft_pos = 0 /\ its[i].op_pos = 0
                      THEN << <<"fdip_set_cur_op", ft.ops[1].id>> >> ELSE <<>>])]

\* decoupled_fe_next_fetch_addr(proc_id): the address it returns, whether
\* that is the answer of the external front-end (frontend_next_fetch_addr)
\* and whether it gets past its ASSERT(0)
decoupled_fe_next_fetch_addr(proc_id) ==
  IF Len(per_core_ftq[proc_id]) = 0
    THEN [addr |-> fe_next_addr[proc_id], defers |-> TRUE, asserts |-> TRUE]
  ELSE IF per_core_current_ft_in_use[proc_id].ops # <<>>
    THEN [addr |-> per_core_current_ft_in_use[proc_id].ops[1].addr,
          defers |-> FALSE, asserts |-> TRUE]
  ELSE IF Head(per_core_ftq[proc_id]).ops # <<>>
    THEN [addr |-> Head(per_core_ftq[proc_id]).ops[1].addr,
          defers |-> FALSE, asserts |-> TRUE]
  ELSE [addr |-> 0, defers |-> FALSE, asserts |-> FALSE]

-----------------------------------------------------------------------------
(* The FTQ iterators.  An iterator is named by its core and its index in   *)
(* per_core_ftq_iterators; the functions read the FTQ of the active core.  *)

decoupled_fe_iter == [ft_pos |-> 0, op_pos |-> 0, flattened_op_pos |-> 0]

\* the ASSERTs of decoupled_fe_ftq_iter_get
iter_get_asserts(ftq, iter) ==
  IF ftq = <<>>
    THEN iter.ft_pos = 0 /\ iter.op_pos = 0 /\ iter.flattened_op_pos = 0
    ELSE iter.ft_pos = Len(ftq)
         \/ (/\ iter.ft_pos >= 0 /\ iter.ft_pos < Len(ftq)
             /\ iter.op_pos >= 0
             /\ iter.op_pos < Len(ftq[iter.ft_pos + 1].ops))

\* decoupled_fe_ftq_iter_get: the id of the op (0 is NULL) and end_of_ft
decoupled_fe_ftq_iter_get(ftq, iter) ==
  IF ftq = <<>> \/ iter.ft_pos = Len(ftq)
    THEN [op |-> 0, end_of_ft |-> FALSE]
    ELSE [op |-> ftq[iter.ft_pos + 1].ops[iter.op_pos + 1].id,
          end_of_ft |-> (iter.op_pos = Len(ftq[iter.ft_pos + 1].ops) - 1)]

\* lines 504-526: the iterator after decoupled_fe_ftq_iter_get_next, and
\* whether it returns NULL before it reaches decoupled_fe_ftq_iter_get.
\* With ft_pos past the size of the FTQ, df_ftq->at(iter->ft_pos) of line 517
\* throws std::out_of_range, which nothing catches: the process ends, as it
\* does on an ASSERT (asserts is FALSE).
iter_advance(ftq, iter) ==
  IF iter.ft_pos + 1 = Len(ftq) /\ iter.op_pos + 1 = Len(ftq[iter.ft_pos + 1].ops)
    THEN [iter |-> [iter EXCEPT !.ft_pos = iter.ft_pos + 1, !.op_pos = 0,
                                !.flattened_op_pos = iter.flattened_op_pos + 1],
          null |-> TRUE, asserts |-> TRUE]
  ELSE IF iter.ft_pos = Len(ftq)
    THEN [iter |-> iter, null |-> TRUE, asserts |-> iter.op_pos = 0]
  ELSE IF iter.ft_pos > Len(ftq)
    THEN [iter |-> iter, null |-> TRUE, asserts |-> FALSE]
  ELSE IF iter.op_pos + 1 = Len(ftq[iter.ft_pos + 1].ops)
    THEN [iter |-> [iter EXCEPT !.ft_pos = iter.ft_pos + 1, !.op_pos = 0,
                                !.flattened_op_pos = iter.flattened_op_pos + 1],
          null |-> FALSE, asserts |-> TRUE]
  ELSE [iter |-> [iter EXCEPT !.op_pos = iter.op_pos + 1,
                              !.flattened_op_pos = iter.flattened_op_pos + 1],
        null |-> FALSE, asserts |-> TRUE]

\* decoupled_fe_ftq_iter_get_next: [iter, op, end_of_ft, asserts]; asserts is
\* FALSE when the call ends the process, on an ASSERT of its own (line 514),
\* on the exception of line 517 or on an ASSERT of the
\* decoupled_fe_ftq_iter_get it ends with (line 527)
decoupled_fe_ftq_iter_get_next(ftq, iter) ==
  LET a == iter_advance(ftq, iter)
  IN  IF a.null \/ ~a.asserts \/ ~iter_get_asserts(ftq, a.iter)
        THEN [iter |-> a.iter, op |-> 0, end_of_ft |-> FALSE,
              asserts |-> a.asserts /\ (a.null \/ iter_get_asserts(ftq, a.iter))]
        ELSE [iter |-> a.iter,
              op |-> decoupled_fe_ftq_iter_get(ftq, a.iter).op,
              end_of_ft |-> decoupled_fe_ftq_iter_get(ftq, a.iter).end_of_ft,
              asserts |-> TRUE]

decoupled_fe_ftq_num_fts == Len(per_core_ftq[set_proc_id])

-----------------------------------------------------------------------------
(* The adaptive FTQ depth controller of recover_decoupled_fe.  The ratios  *)
(* are in hundredths (utility_ratio = u / 100), the thresholds with them.  *)

UTILITY_RATIO_THRESHOLD == 70
TIMELINESS_RATIO_THRESHOLD == 77

\* std::round(n / d) for d > 0: to the nearest, halves away from zero
Round(n, d) == IF n >= 0 THEN (2 * n + d) \div (2 * d)
               ELSE 0 - ((2 * (0 - n) + d) \div (2 * d))

\* std::round on a double product whose exact value lies half-way between
\* two integers.  The code multiplies and adds doubles: the ratios, the
\* thresholds 0.7 and 0.77 and the coefficients of the polynomial are not
\* representable, so such a product lies just below the half
\* (5 * (0.7 - 0.6) is 0.49999999999999989) or on or above it
\* (5 * (1.0 - 0.7) is 1.5000000000000002).  tie names the side: "zero" (the
\* double is below the half in magnitude) or "away".  Off the halves the
\* double rounds as the exact product does.
Ties == {"zero", "away"}

\* std::round of the double that stands for n / d, d > 0
round_double(n, d, tie) ==
  LET m == IF n >= 0 THEN n ELSE 0 - n
  IN  IF 2 * (m % d) = d /\ tie = "zero"
        THEN (IF n >= 0 THEN m \div d ELSE 0 - (m \div d))
        ELSE Round(n, d)

\* The depths and the hypothetical depths whose halves are tabulated below
TabulatedDepths == 1..50
TabulatedHypotheticals == 0..150

\* <<depth, ratio>>, ratio in hundredths: the double
\* depth * (0.70 - ratio) or depth * (ratio - 0.70) of lines 149 and 153 is
\* below its exact value, a half
utility_below_half ==
  {<<1, 20>>, <<2, 45>>, <<3, 20>>, <<5, 20>>, <<5, 40>>, <<5, 60>>, <<6,
   45>>, <<7, 20>>, <<9, 20>>, <<10, 5>>, <<10, 15>>, <<10, 45>>, <<10, 55>>,
   <<10, 65>>, <<11, 20>>, <<13, 20>>, <<14, 45>>, <<15, 20>>, <<15, 40>>,
   <<15, 60>>, <<17, 20>>, <<18, 45>>, <<19, 20>>, <<21, 20>>, <<22, 45>>,
   <<23, 20>>, <<25, 4>>, <<25, 12>>, <<25, 16>>, <<25, 20>>, <<25, 28>>,
   <<25, 32>>, <<25, 40>>, <<25, 44>>, <<25, 48>>, <<25, 52>>, <<25, 56>>,
   <<25, 60>>, <<25, 64>>, <<25, 68>>, <<26, 45>>, <<27, 20>>, <<29, 20>>,
   <<30, 5>>, <<30, 15>>, <<30, 25>>, <<30, 45>>, <<30, 55>>, <<30, 65>>,
   <<31, 20>>, <<33, 20>>, <<34, 45>>, <<35, 20>>, <<35, 40>>, <<35, 60>>,
   <<37, 20>>, <<38, 45>>, <<39, 20>>, <<41, 20>>, <<42, 45>>, <<43, 20>>,
   <<45, 0>>, <<45, 20>>, <<45, 40>>, <<45, 60>>, <<46, 45>>, <<47, 20>>,
   <<49, 20>>, <<50, 5>>, <<50, 7>>, <<50, 13>>, <<50, 15>>, <<50, 17>>,
   <<50, 25>>, <<50, 27>>, <<50, 31>>, <<50, 33>>, <<50, 37>>, <<50, 39>>,
   <<50, 41>>, <<50, 43>>, <<50, 45>>, <<50, 49>>, <<50, 51>>, <<50, 53>>,
   <<50, 55>>, <<50, 59>>, <<50, 61>>, <<50, 63>>, <<50, 65>>, <<50, 67>>}

\* the same for depth * (0.77 - ratio) and depth * (ratio - 0.77) of lines
\* 162 and 166
timeliness_below_half ==
  {<<5, 67>>, <<5, 87>>, <<10, 82>>, <<15, 67>>, <<15, 87>>, <<25, 55>>,
   <<25, 67>>, <<25, 83>>, <<25, 87>>, <<25, 95>>, <<25, 99>>, <<30, 82>>,
   <<35, 67>>, <<35, 87>>, <<45, 7>>, <<45, 67>>, <<45, 87>>, <<50, 56>>,
   <<50, 66>>, <<50, 68>>, <<50, 82>>, <<50, 84>>, <<50, 86>>, <<50, 88>>,
   <<50, 94>>, <<50, 96>>, <<50, 98>>}

\* <<qdaur, qdatr>>: the double polynomial of line 183 is nearer to zero than
\* its exact value, a half
polynomial_below_half ==
  {<<0, 37>>, <<0, 47>>, <<0, 57>>, <<0, 137>>, <<0, 147>>, <<10, 24>>, <<10,
   34>>, <<10, 38>>, <<10, 48>>, <<10, 58>>, <<10, 138>>, <<10, 148>>, <<40,
   19>>, <<40, 29>>, <<40, 33>>, <<40, 43>>, <<40, 53>>, <<40, 63>>, <<40,
   129>>, <<40, 133>>, <<40, 143>>, <<50, 0>>, <<50, 2>>, <<50, 32>>, <<50,
   42>>, <<50, 52>>, <<50, 62>>, <<50, 132>>, <<50, 142>>, <<60, 13>>, <<60,
   19>>, <<60, 29>>, <<60, 33>>, <<60, 43>>, <<60, 53>>, <<60, 129>>, <<60,
   133>>, <<60, 149>>, <<90, 4>>, <<90, 14>>, <<90, 24>>, <<90, 28>>, <<90,
   38>>, <<90, 48>>, <<90, 58>>, <<90, 144>>, <<100, 27>>, <<100, 37>>,
   <<110, 4>>, <<110, 14>>, <<110, 24>>, <<110, 28>>, <<110, 144>>, <<140,
   9>>, <<140, 13>>, <<140, 123>>, <<140, 149>>, <<150, 2>>, <<150, 22>>}

\* the side of the half of depth * |threshold - ratio|: tabulated for the
\* thresholds of the code, tie elsewhere
product_tie(depth, ratio, threshold, tie) ==
  IF depth \in TabulatedDepths /\ ratio \in 0..100
       /\ threshold \in {UTILITY_RATIO_THRESHOLD, TIMELINESS_RATIO_THRESHOLD}
    THEN IF <<depth, ratio>> \in (IF threshold = UTILITY_RATIO_THRESHOLD
                                    THEN utility_below_half
                                    ELSE timeliness_below_half)
           THEN "zero" ELSE "away"
    ELSE tie

\* the side of the half of the polynomial
polynomial_tie(qdaur, qdatr, tie) ==
  IF qdaur \in TabulatedHypotheticals /\ qdatr \in TabulatedHypotheticals
    THEN IF <<qdaur, qdatr>> \in polynomial_below_half THEN "zero" ELSE "away"
    ELSE tie

\* The outcomes of a negative double stored into a uint64_t, which is
\* undefined: "wrap" (the value modulo 2^64, what x86-64 builds do) or "zero"
\* (saturation).
Conversions == {"wrap", "zero"}

\* lines 183-187: the rounded polynomial v is stored into the uint64_t depth
\* and the depth is clamped.  A negative v that wraps is stored as 2^64 + v,
\* which is not below UFTQ_MIN_FTQ_BLOCK_NUM and is above
\* UFTQ_MAX_FTQ_BLOCK_NUM for every bound below 2^64 + v.
store_and_clamp(v, ub) ==
  IF v < 0 /\ ub = "wrap" THEN UFTQ_MAX_FTQ_BLOCK_NUM
  ELSE LET d == IF v < 0 THEN 0 ELSE v
       IN  IF d < UFTQ_MIN_FTQ_BLOCK_NUM THEN UFTQ_MIN_FTQ_BLOCK_NUM
           ELSE IF d > UFTQ_MAX_FTQ_BLOCK_NUM THEN UFTQ_MAX_FTQ_BLOCK_NUM
           ELSE d

\* lines 148-156 and 161-169: depth -= / += round(depth * |ratio - threshold|),
\* clamped on the side it moved to
adjust_by(depth, ratio, threshold, tie) ==
  IF ratio < threshold
    THEN LET d == depth - round_double(depth * (threshold - ratio), 100,
                                       product_tie(depth, ratio, threshold, tie))
         IN  IF d < UFTQ_MIN_FTQ_BLOCK_NUM THEN UFTQ_MIN_FTQ_BLOCK_NUM ELSE d
  ELSE IF ratio > threshold
    THEN LET d == depth + round_double(depth * (ratio - threshold), 100,
                                       product_tie(depth, ratio, threshold, tie))
         IN  IF d > UFTQ_MAX_FTQ_BLOCK_NUM THEN UFTQ_MAX_FTQ_BLOCK_NUM ELSE d
  ELSE depth

\* lines 173-182: the hypothetical depth of one rule, not clamped
hypothetical(depth, ratio, threshold, tie) ==
  IF ratio < threshold
    THEN depth - round_double(depth * (threshold - ratio), 100,
                              product_tie(depth, ratio, threshold, tie))
  ELSE IF ratio > threshold
    THEN depth + round_double(depth * (ratio - threshold), 100,
                              product_tie(depth, ratio, threshold, tie))
  ELSE depth

\* line 183: the polynomial, its coefficients in thousandths
polynomial(qdaur, qdatr, tie) ==
  round_double(0 - 2300 * qdaur - 31200 * qdatr + 7 * qdaur * qdaur
                 + 100 * qdatr * qdatr + 300 * qdaur * qdatr, 1000,
               polynomial_tie(qdaur, qdatr, tie))

\* lines 172-188; ties: the sides of the halves of the three roundings that
\* are not tabulated
adjust_combined(depth, u, t, ub, ties) ==
  LET qdaur == hypothetical(depth, u, UTILITY_RATIO_THRESHOLD, ties[1])
      qdatr == hypothetical(depth, t, TIMELINESS_RATIO_THRESHOLD, ties[2])
  IN  store_and_clamp(polynomial(qdaur, qdatr, ties[3]), ub)

\* lines 143-189: the depth bound after the controller
adjusted_ftq_ft_num(depth, info, ub, ties) ==
  IF FDIP_ADJUSTABLE_FTQ # 0 /\ info.adjust
    THEN IF FDIP_ADJUSTABLE_FTQ = 1
           THEN adjust_by(depth, info.utility_ratio, UTILITY_RATIO_THRESHOLD, ties[1])
         ELSE IF FDIP_ADJUSTABLE_FTQ = 2
           THEN adjust_by(depth, info.timeliness_ratio, TIMELINESS_RATIO_THRESHOLD,
                          ties[2])
         ELSE IF FDIP_ADJUSTABLE_FTQ = 3
           THEN adjust_combined(depth, info.utility_ratio, info.timeliness_ratio,
                                ub, ties)
         ELSE depth
    ELSE depth

\* lines 158 and 171: the adjust flag after the controller
adjusted_flag(info) ==
  IF FDIP_ADJUSTABLE_FTQ # 0 /\ info.adjust /\ FDIP_ADJUSTABLE_FTQ \in {1, 2}
    THEN FALSE ELSE info.adjust

-----------------------------------------------------------------------------
(* The initial state: alloc_mem_decoupled_fe and init_decoupled_fe of      *)
(* every core, under one configuration cfg.                                *)

Utility_Timeliness_Info == [utility_ratio |-> 0, timeliness_ratio |-> 0, adjust |-> FALSE]

InitWith(cfg) ==
  /\ FE_FTQ_BLOCK_NUM = cfg.FE_FTQ_BLOCK_NUM
  /\ UFTQ_MIN_FTQ_BLOCK_NUM = cfg.UFTQ_MIN_FTQ_BLOCK_NUM
  /\ UFTQ_MAX_FTQ_BLOCK_NUM = cfg.UFTQ_MAX_FTQ_BLOCK_NUM
  /\ FDIP_ADJUSTABLE_FTQ = cfg.FDIP_ADJUSTABLE_FTQ
  /\ FDIP_BP_CONFIDENCE = cfg.FDIP_BP_CONFIDENCE
  /\ FE_FTQ_TAKEN_CFS_PER_CYCLE = cfg.FE_FTQ_TAKEN_CFS_PER_CYCLE
  /\ FE_FTQ_BYTES_PER_CYCLE = cfg.FE_FTQ_BYTES_PER_CYCLE
  /\ ICACHE_LINE_SIZE = cfg.ICACHE_LINE_SIZE
  /\ trace_mode = cfg.trace_mode
  /\ per_core_ftq = [p \in Cores |-> <<>>]
  /\ per_core_current_ft_to_push = [p \in Cores |-> FT]
  /\ per_core_current_ft_in_use = [p \in Cores |-> FT]
  /\ per_core_off_path = [p \in Cores |-> FALSE]
  /\ per_core_sched_off_path = [p \in Cores |-> FALSE]
  /\ per_core_op_count = [p \in Cores |-> 1]
  /\ per_core_ftq_iterators = [p \in Cores |-> <<>>]
  /\ per_core_recovery_addr = [p \in Cores |-> 0]
  /\ per_core_redirect_cycle = [p \in Cores |-> 0]
  /\ per_core_stalled = [p \in Cores |-> FALSE]
  /\ per_core_ftq_ft_num = [p \in Cores |-> cfg.FE_FTQ_BLOCK_NUM]
  /\ per_core_utility_timeliness_info = [p \in Cores |-> Utility_Timeliness_Info]
  /\ set_proc_id = 0
  /\ fwd_progress = 0
  /\ iterators_storage = [p \in Cores |-> <<>>]
  /\ cycle_count = 0
  /\ fe_next_addr = [p \in Cores |-> cfg.start_addr]
  /\ op_pool = <<>>
  /\ aborted = FALSE
  /\ last = [act |-> "init"]
  /\ op_log = [p \in Cores |-> [recovery_op_num |-> -1, stamped |-> <<>>,
                                 delivered |-> <<>>, idle_ticks |-> 0,
                                 advanced |-> <<>>]]

-----------------------------------------------------------------------------
(* The actions: one per call into the front-end.  An ASSERT that fires     *)
(* aborts the simulator: the state is left as the call found it.           *)

\* no op has been returned to any of the iterators of a core
NoneAdvanced(advanced) == [i \in 1..Len(advanced) |-> 0]

Abort(name) ==
  /\ aborted' = TRUE
  /\ last' = [act |-> "abort", in |-> name]
  /\ UNCHANGED <<params, fe_state, cycle_count, fe_next_addr, op_pool, op_log>>

\* set_decoupled_fe(proc_id): the active-core pointers and set_proc_id
SetDecoupledFe(proc_id) ==
  /\ ~aborted
  /\ set_proc_id' = proc_id
  /\ last' = [act |-> "set_decoupled_fe", proc |-> proc_id]
  /\ UNCHANGED <<params, per_core_ftq, per_core_current_ft_to_push,
                 per_core_current_ft_in_use, per_core_off_path,
                 per_core_sched_off_path, per_core_op_count,
                 per_core_ftq_iterators, per_core_recovery_addr,
                 per_core_redirect_cycle, per_core_stalled, per_core_ftq_ft_num,
                 per_core_utility_timeliness_info, fwd_progress, cycle_count,
                 fe_next_addr, op_pool, aborted, op_log, iterators_storage>>

\* The simulator's clock: cycle_count++ in the simulator's main loop, between
\* the calls of one cycle and those of the next; a specification follows
\* max_cycle cycles.
ClockUpTo(max_cycle) ==
  /\ ~aborted
  /\ cycle_count < max_cycle
  /\ cycle_count' = cycle_count + 1
  /\ last' = [act |-> "cycle"]
  /\ UNCHANGED <<params, fe_state, fe_next_addr, op_pool, aborted, op_log>>

ClockTick == ClockUpTo(MaxCycle)

\* The producer tick of the active core: update_decoupled_fe() after
\* set_decoupled_fe(set_proc_id), the external front-end yielding ops of the
\* kinds K, at most max_ops ops in all.  The call reads cycle_count and
\* leaves it.  The watchdog of lines 226-231 lets FWD_PROGRESS_LIMIT - 1
\* calls in a row produce no op; a specification follows max_idle of them.
TickUpTo(K, max_ops, max_idle) ==
  /\ ~aborted
  /\ \E in \in tick_inputs(tick_state(<<>>, 0), K, <<>>, max_ops - Len(op_pool)) :
       LET p == set_proc_id
           r == update_decoupled_fe(in.feed, in.pred_iters)
       IN  IF r.aborted THEN Abort("update_decoupled_fe")
           ELSE /\ r.fwd <= max_idle
                /\ per_core_ftq' = [per_core_ftq EXCEPT ![p] = r.ftq]
                /\ per_core_current_ft_to_push' =
                     [per_core_current_ft_to_push EXCEPT ![p] = r.cur]
                /\ per_core_off_path' = [per_core_off_path EXCEPT ![p] = r.off_path]
                /\ per_core_op_count' = [per_core_op_count EXCEPT ![p] = r.op_count]
                /\ per_core_recovery_addr' =
                     [per_core_recovery_addr EXCEPT ![p] = r.recovery_addr]
                /\ per_core_redirect_cycle' =
                     [per_core_redirect_cycle EXCEPT ![p] = r.redirect_cycle]
                /\ per_core_stalled' = [per_core_stalled EXCEPT ![p] = r.stalled]
                /\ fwd_progress' = r.fwd
                /\ fe_next_addr' = [fe_next_addr EXCEPT ![p] = r.fe_next]
                /\ op_pool' = r.pool
                /\ last' = [act |-> "update_decoupled_fe", proc |-> p,
                            events |-> r.events]
                /\ op_log' = [op_log EXCEPT
                     ![p].stamped =
                        @ \o [i \in 1..Len(r.produced) |-> r.produced[i].op_num],
                     ![p].idle_ticks = IF r.produced = <<>> THEN @ + 1 ELSE 0]
                /\ UNCHANGED <<params, per_core_current_ft_in_use,
                               per_core_sched_off_path, per_core_ftq_iterators,
                               per_core_ftq_ft_num, per_core_utility_timeliness_info,
                               set_proc_id, cycle_count, aborted,
                               iterators_storage>>

Tick(K) == TickUpTo(K, MaxOps, MaxIdle)

\* the ids of the ops of ft that the consumer has not been handed
undelivered(ft) == Ids(SubSeq(ft.ops, ft.op_pos + 1, Len(ft.ops)))

\* decoupled_fe_fetch_ft(&start, &length, proc_id)
FetchFt(proc_id) ==
  /\ ~aborted
  /\ IF ~decoupled_fe_can_fetch_ft(proc_id)
       THEN /\ last' = [act |-> "fetch_ft", proc |-> proc_id, ret |-> FALSE]
            /\ UNCHANGED <<params, fe_state, cycle_count, fe_next_addr, op_pool,
                           aborted, op_log>>
       ELSE LET f == decoupled_fe_fetch_ft(proc_id)
                lost == undelivered(per_core_current_ft_in_use[proc_id])
            IN  IF ~f.asserts THEN Abort("decoupled_fe_fetch_ft")
                ELSE /\ per_core_ftq' = [per_core_ftq EXCEPT ![proc_id] = f.ftq]
                     /\ per_core_current_ft_in_use' =
                          [per_core_current_ft_in_use EXCEPT ![proc_id] = f.in_use]
                     /\ per_core_ftq_iterators' =
                          [per_core_ftq_iterators EXCEPT ![proc_id] = f.iters]
                     /\ op_pool' = [i \in 1..Len(op_pool) |->
                                      IF \E k \in 1..Len(lost) : lost[k] = i
                                        THEN [op_pool[i] EXCEPT !.dropped = TRUE]
                                        ELSE op_pool[i]]
                     /\ last' = [act |-> "fetch_ft", proc |-> proc_id, ret |-> TRUE,
                                 ft_start |-> f.ft_start, ft_length |-> f.ft_length,
                                 pre_iters |-> per_core_ftq_iterators[proc_id],
                                 events |-> f.events]
                     /\ UNCHANGED <<params, per_core_current_ft_to_push,
                                    per_core_off_path, per_core_sched_off_path,
                                    per_core_op_count, per_core_recovery_addr,
                                    per_core_redirect_cycle, per_core_stalled,
                                    per_core_ftq_ft_num,
                                    per_core_utility_timeliness_info, set_proc_id,
                                    fwd_progress, cycle_count, fe_next_addr,
                                    aborted, iterators_storage>>
                     /\ op_log' = [op_log EXCEPT
                          ![proc_id].advanced = NoneAdvanced(@)]

\* decoupled_fe_fetch_op(&op, proc_id)
FetchOp(proc_id) ==
  /\ ~aborted
  /\ LET s == set_proc_id
         need == ~ft_can_fetch_op(per_core_current_ft_in_use[s])
     IN  IF need /\ ~decoupled_fe_can_fetch_ft(proc_id)
           THEN /\ last' = [act |-> "fetch_op", proc |-> proc_id, ret |-> FALSE]
                /\ UNCHANGED <<params, fe_state, cycle_count, fe_next_addr, op_pool,
                               aborted, op_log>>
           ELSE LET f == decoupled_fe_fetch_ft(proc_id)
                    lost == undelivered(per_core_current_ft_in_use[proc_id])
                    in_use1 == IF need
                                 THEN [per_core_current_ft_in_use EXCEPT ![proc_id] = f.in_use]
                                 ELSE per_core_current_ft_in_use
                    r == ft_fetch_op(in_use1[s])
                IN  IF (need /\ ~f.asserts) \/ ~ft_can_fetch_op(in_use1[s]) \/ ~r.ret
                      THEN Abort("decoupled_fe_fetch_op")
                      ELSE /\ per_core_current_ft_in_use' = [in_use1 EXCEPT ![s] = r.ft]
                           /\ per_core_ftq' = IF need
                                THEN [per_core_ftq EXCEPT ![proc_id] = f.ftq]
                                ELSE per_core_ftq
                           /\ per_core_ftq_iterators' = IF need
                                THEN [per_core_ftq_iterators EXCEPT ![proc_id] = f.iters]
                                ELSE per_core_ftq_iterators
                           /\ op_pool' = [i \in 1..Len(op_pool) |->
                                IF i = r.op THEN [op_pool[i] EXCEPT !.out = TRUE]
                                ELSE IF need /\ \E k \in 1..Len(lost) : lost[k] = i
                                  THEN [op_pool[i] EXCEPT !.dropped = TRUE]
                                ELSE op_pool[i]]
                           /\ op_log' = [op_log EXCEPT
                                ![s].delivered =
                                  LET n == in_use1[s].ops[in_use1[s].op_pos + 1].op_num
                                  IN  IF \E i \in 1..Len(@) : @[i] = n THEN @
                                      ELSE Append(@, n),
                                ![proc_id].advanced =
                                  IF need THEN NoneAdvanced(@) ELSE @]
                           /\ last' = [act |-> "fetch_op", proc |-> proc_id, ret |-> TRUE,
                                       op |-> r.op, popped |-> need,
                                       pre_cursor |-> per_core_current_ft_in_use[s].op_pos,
                                       pre_can |-> decoupled_fe_can_fetch_op(proc_id),
                                       returned |-> IF last.act = "return_op" /\ last.undoes
                                          THEN last.op ELSE 0,
                                       returned_popped |-> last.act = "return_op"
                                          /\ last.undoes /\ last.popped,
                                       pre_iters |-> IF need
                                          THEN per_core_ftq_iterators[proc_id] ELSE <<>>,
                                       events |-> IF need THEN f.events ELSE <<>>]
                           /\ UNCHANGED <<params, per_core_current_ft_to_push,
                                          per_core_off_path, per_core_sched_off_path,
                                          per_core_op_count, per_core_recovery_addr,
                                          per_core_redirect_cycle, per_core_stalled,
                                          per_core_ftq_ft_num,
                                          per_core_utility_timeliness_info,
                                          set_proc_id, fwd_progress, cycle_count,
                                          fe_next_addr, aborted,
                                          iterators_storage>>

\* decoupled_fe_return_op(op): the consumer returns an op it was handed
ReturnOp ==
  /\ ~aborted
  /\ \E op \in 1..Len(op_pool) :
       /\ op_pool[op].out
       /\ LET s == set_proc_id
              ft == per_core_current_ft_in_use[s]
          IN  IF ~ft_return_op_asserts(ft, op) THEN Abort("decoupled_fe_return_op")
              ELSE /\ per_core_current_ft_in_use' =
                        [per_core_current_ft_in_use EXCEPT ![s] = ft_return_op(ft, op)]
                   /\ op_pool' = [op_pool EXCEPT ![op].out = FALSE]
                   /\ last' = IF last.act = "fetch_op" /\ last.ret /\ last.op = op
                                   /\ last.proc = s
                                THEN [act |-> "return_op", proc |-> s, op |-> op,
                                      undoes |-> TRUE, popped |-> last.popped,
                                      pre_cursor |-> last.pre_cursor,
                                      pre_can |-> last.pre_can]
                                ELSE [act |-> "return_op", proc |-> s, op |-> op,
                                      undoes |-> FALSE]
                   /\ UNCHANGED <<params, per_core_ftq, per_core_current_ft_to_push,
                                  per_core_off_path, per_core_sched_off_path,
                                  per_core_op_count, per_core_ftq_iterators,
                                  per_core_recovery_addr, per_core_redirect_cycle,
                                  per_core_stalled, per_core_ftq_ft_num,
                                  per_core_utility_timeliness_info, set_proc_id,
                                  fwd_progress, cycle_count, fe_next_addr, aborted,
                                  op_log, iterators_storage>>

\* The recovery fetch addresses and the kinds of the recovery op that the
\* back-end signals in bp_recovery_info
RecoveryAddrs == {24}
RecoveryKinds == {"recover_at_decode", "recover_at_exec", "none"}
RecoveryOpNums(proc_id) ==
  {IF per_core_op_count[proc_id] >= 2 THEN per_core_op_count[proc_id] - 2 ELSE 0}

\* a recovery that restarts the op counter at the op_num of the recovery op
op_count_at_recovery_op(recovery_op_num) == recovery_op_num

\* line 133: per_core_op_count[proc_id] = bp_recovery_info->recovery_op_num + 1
op_count_after_recovery(recovery_op_num) == recovery_op_num + 1

\* a recovery that frees the ops of the FTQ but forgets to clear it
ftq_clear_forgotten(ftq) == ftq

\* per_core_ftq[proc_id].clear(), after ft_free_ops_and_clear on every FT
ftq_clear(ftq) == <<>>

\* recover_decoupled_fe(proc_id) with bp_recovery_info = (addr, op_num, kind);
\* fe_ok: frontend_next_fetch_addr answers addr after frontend_recover;
\* ub: what the build makes of a negative double stored into a uint64_t
\* (the sides on which the controller's double products fall are chosen in
\* the action)
Recover(proc_id, addr, op_num, kind, fe_ok, ub) ==
  /\ ~aborted
  /\ LET s == set_proc_id
         freed == Flatten([i \in 1..Len(per_core_ftq[proc_id]) |->
                             ft_free_ops(per_core_ftq[proc_id][i])])
                  \o ft_free_ops(per_core_current_ft_to_push[proc_id])
                  \o ft_free_ops(per_core_current_ft_in_use[proc_id])
         info == per_core_utility_timeliness_info[proc_id]
         offpath_cycles == cycle_count - per_core_redirect_cycle[proc_id]
     IN  IF ~(cycle_count > per_core_redirect_cycle[proc_id]) \/ ~fe_ok
           THEN Abort("recover_decoupled_fe")
           ELSE /\ per_core_off_path' = [per_core_off_path EXCEPT ![proc_id] = FALSE]
                /\ per_core_sched_off_path' =
                     [per_core_sched_off_path EXCEPT ![proc_id] = FALSE]
                /\ per_core_recovery_addr' =
                     [per_core_recovery_addr EXCEPT ![proc_id] = addr]
                /\ per_core_ftq' = [per_core_ftq EXCEPT ![proc_id] = ftq_clear(@)]
                /\ per_core_current_ft_to_push' =
                     [per_core_current_ft_to_push EXCEPT
                        ![proc_id] = ft_free_ops_and_clear(@)]
                /\ per_core_current_ft_in_use' =
                     [per_core_current_ft_in_use EXCEPT
                        ![proc_id] = ft_free_ops_and_clear(@)]
                /\ op_pool' = free_ops(op_pool, freed)
                /\ per_core_op_count' = [per_core_op_count EXCEPT
                                             ![proc_id] = op_count_after_recovery(op_num)]
                /\ per_core_ftq_iterators' =
                     [per_core_ftq_iterators EXCEPT
                        ![proc_id] = [i \in 1..Len(@) |-> decoupled_fe_iter]]
                /\ \E ftq_ft_num \in
                       {adjusted_ftq_ft_num(per_core_ftq_ft_num[proc_id], info, ub, ties) :
                          ties \in (IF FDIP_ADJUSTABLE_FTQ # 0 /\ info.adjust
                                      THEN Ties \X Ties \X Ties
                                      ELSE {<<"away", "away", "away">>})} :
                     per_core_ftq_ft_num' =
                       [per_core_ftq_ft_num EXCEPT ![proc_id] = ftq_ft_num]
                /\ per_core_utility_timeliness_info' =
                     [per_core_utility_timeliness_info EXCEPT
                        ![proc_id].adjust = adjusted_flag(info)]
                /\ per_core_stalled' = [per_core_stalled EXCEPT ![s] = FALSE]
                /\ per_core_redirect_cycle' =
                     [per_core_redirect_cycle EXCEPT ![proc_id] = 0]
                /\ fe_next_addr' = [fe_next_addr EXCEPT ![proc_id] = addr]
                /\ last' = [act |-> "recover_decoupled_fe", proc |-> proc_id,
                            recovery_fetch_addr |-> addr, recovery_op_num |-> op_num,
                            pre_fts |-> Len(per_core_ftq[proc_id]),
                            pre_off_path |-> per_core_off_path[proc_id],
                            pre_stalled |-> per_core_stalled[proc_id],
                            events |-> (IF kind = "recover_at_decode"
                                          THEN << <<"FTQ_RECOVER_DECODE">> >>
                                        ELSE IF kind = "recover_at_exec"
                                          THEN << <<"FTQ_RECOVER_EXEC">> >>
                                        ELSE <<>>)
                                      \o << <<"FTQ_OFFPATH_CYCLES", offpath_cycles>> >>]
                /\ op_log' = [op_log EXCEPT
                                ![proc_id] = [recovery_op_num |-> op_num, stamped |-> <<>>,
                                              delivered |-> <<>>,
                                              idle_ticks |-> @.idle_ticks,
                                              advanced |-> NoneAdvanced(@.advanced)]]
                /\ UNCHANGED <<params, set_proc_id, fwd_progress, cycle_count, aborted,
                               iterators_storage>>

\* decoupled_fe_retire(op, proc_id, inst_uid); barrier: the op is a fetch
\* barrier or a system call; alone: td->seq_op_list.count == 1
Retire(proc_id, barrier, alone) ==
  /\ ~aborted
  /\ IF barrier /\ ~alone THEN Abort("decoupled_fe_retire")
     ELSE /\ per_core_stalled' = IF barrier
               THEN [per_core_stalled EXCEPT ![set_proc_id] = FALSE]
               ELSE per_core_stalled
          /\ last' = [act |-> "decoupled_fe_retire", proc |-> proc_id, barrier |-> barrier]
          /\ UNCHANGED <<params, per_core_ftq, per_core_current_ft_to_push,
                         per_core_current_ft_in_use, per_core_off_path,
                         per_core_sched_off_path, per_core_op_count,
                         per_core_ftq_iterators, per_core_recovery_addr,
                         per_core_redirect_cycle, per_core_ftq_ft_num,
                         per_core_utility_timeliness_info, set_proc_id, fwd_progress,
                         cycle_count, fe_next_addr, op_pool, aborted, op_log,
                         iterators_storage>>

\* line 481: push_back on a std::vector whose size is its capacity moves the
\* elements to a new allocation and frees the old one.  The vector starts
\* with no capacity and grows to 1, 2, 4, 8, ... elements (libstdc++ and
\* libc++ double it).
reallocates(size) == size \in {0, 1, 2, 4, 8, 16, 32}

\* lines 480-483: decoupled_fe_new_ftq_iter returns the address of the new
\* element of the vector, and the client keeps it as its handle.  The handle
\* of iterator i of its dangles once a later push_back has reallocated the
\* vector; the iterator itself stays registered.
dangling(its, i) == \E size \in i..(Len(its) - 1) : reallocates(size)

\* the allocation of its vector that held iterator i of core q when
\* decoupled_fe_new_ftq_iter returned its address: the one made by the last
\* push_back that reallocated, at a size below i
handle_storage(q, i) ==
  iterators_storage[q][Cardinality({size \in 0..(i - 1) : reallocates(size)})]

\* the allocations, of as many bytes as the n-th allocation of a vector, that
\* a vector has been moved out of and that no vector lives in
freed_storage(n) ==
  {iterators_storage[c][n] : c \in {d \in Cores : Len(iterators_storage[d]) > n}}
    \ {iterators_storage[c][n] : c \in {d \in Cores : Len(iterators_storage[d]) = n}}

\* The registered iterator that lives at the address a handle holds: the
\* iterator the handle was returned for while the vector has not moved, and
\* afterwards the iterator with the same index of a core whose vector was
\* later allocated in the freed block, if there is one.  No iterator lives
\* there when the block is free, is used for something else or is filled by
\* its new vector below that index.
designates(q, i) ==
  IF ~dangling(per_core_ftq_iterators[q], i) THEN {<<q, i>>}
  ELSE {<<c, i>> : c \in {d \in Cores :
                            /\ iterators_storage[d] # <<>>
                            /\ iterators_storage[d][Len(iterators_storage[d])]
                                 = handle_storage(q, i)
                            /\ i <= Len(per_core_ftq_iterators[d])}}

\* the name under which a call of name through the handle of iterator i of
\* core q is recorded when it ends the run
through(q, i, name) ==
  IF dangling(per_core_ftq_iterators[q], i)
    THEN name \o " through a dangling decoupled_fe_iter*"
    ELSE name

\* A call of decoupled_fe_ftq_iter_get or decoupled_fe_ftq_iter_get_next
\* through a handle whose address holds no registered iterator reads what the
\* allocator and later users of the block have left there (and get_next
\* writes to it), which is undefined: an ASSERT fires or df_ftq->at() throws
\* and the process ends, or the call returns some op or NULL and some
\* end_of_ft.  No registered iterator is at that address, so none changes,
\* and none has been returned an op.
DanglingCall(act, name, q, i) ==
  \/ Abort(through(q, i, name))
  \/ \E op \in 0..Len(op_pool), end_of_ft \in BOOLEAN :
       /\ last' = [act |-> act, proc |-> q, iter |-> i, dangling |-> TRUE,
                   at |-> <<>>, op |-> op, end_of_ft |-> end_of_ft,
                   prev |-> op_log[q].advanced[i]]
       /\ UNCHANGED <<params, fe_state, cycle_count, fe_next_addr, op_pool,
                      aborted, op_log>>

\* decoupled_fe_new_ftq_iter().  A push_back that reallocates takes a block
\* from the allocator: a fresh one, named by the core and the count of its
\* allocations, or one of the same size that a vector of iterators has freed.
NewIter ==
  /\ ~aborted
  /\ Len(per_core_ftq_iterators[set_proc_id]) < MaxIters
  /\ per_core_ftq_iterators' =
       [per_core_ftq_iterators EXCEPT ![set_proc_id] = Append(@, decoupled_fe_iter)]
  /\ IF reallocates(Len(per_core_ftq_iterators[set_proc_id]))
       THEN LET n == Len(iterators_storage[set_proc_id]) + 1
            IN  \E block \in freed_storage(n) \cup {<<set_proc_id, n>>} :
                  iterators_storage' =
                    [iterators_storage EXCEPT ![set_proc_id] = Append(@, block)]
       ELSE UNCHANGED iterators_storage
  /\ last' = [act |-> "new_ftq_iter", proc |-> set_proc_id]
  /\ UNCHANGED <<params, per_core_ftq, per_core_current_ft_to_push,
                 per_core_current_ft_in_use, per_core_off_path,
                 per_core_sched_off_path, per_core_op_count, per_core_recovery_addr,
                 per_core_redirect_cycle, per_core_stalled, per_core_ftq_ft_num,
                 per_core_utility_timeliness_info, set_proc_id, fwd_progress,
                 cycle_count, fe_next_addr, op_pool, aborted>>
  /\ op_log' = [op_log EXCEPT ![set_proc_id].advanced = Append(@, 0)]

\* decoupled_fe_ftq_iter_get(iter, &end_of_ft) through the handle that
\* decoupled_fe_new_ftq_iter returned for iterator i of core q; the call reads
\* the FTQ of the active core and the iterator at the handle's address
IterGet(q, i) ==
  /\ ~aborted
  /\ i \in 1..Len(per_core_ftq_iterators[q])
  /\ IF designates(q, i) = {}
       THEN DanglingCall("ftq_iter_get", "decoupled_fe_ftq_iter_get", q, i)
       ELSE \E at \in designates(q, i) :
              LET ftq == per_core_ftq[set_proc_id]
                  iter == per_core_ftq_iterators[at[1]][at[2]]
                  r == decoupled_fe_ftq_iter_get(ftq, iter)
              IN  IF ~iter_get_asserts(ftq, iter)
                    THEN Abort(through(q, i, "decoupled_fe_ftq_iter_get"))
                  ELSE /\ last' = [act |-> "ftq_iter_get", proc |-> q, iter |-> i,
                                   dangling |-> dangling(per_core_ftq_iterators[q], i),
                                   at |-> at, op |-> r.op, end_of_ft |-> r.end_of_ft,
                                   prev |-> op_log[q].advanced[i]]
                       /\ UNCHANGED <<params, fe_state, cycle_count, fe_next_addr,
                                      op_pool, aborted, op_log>>

\* decoupled_fe_ftq_iter_get_next(iter, &end_of_ft) through the handle that
\* decoupled_fe_new_ftq_iter returned for iterator i of core q; the call reads
\* the FTQ of the active core and moves the iterator at the handle's address
IterGetNext(q, i) ==
  /\ ~aborted
  /\ i \in 1..Len(per_core_ftq_iterators[q])
  /\ IF designates(q, i) = {}
       THEN DanglingCall("ftq_iter_get_next", "decoupled_fe_ftq_iter_get_next",
                         q, i)
       ELSE \E at \in designates(q, i) :
              LET r == decoupled_fe_ftq_iter_get_next(
                         per_core_ftq[set_proc_id],
                         per_core_ftq_iterators[at[1]][at[2]])
              IN  IF ~r.asserts
                    THEN Abort(through(q, i, "decoupled_fe_ftq_iter_get_next"))
                  ELSE /\ per_core_ftq_iterators' =
                            [per_core_ftq_iterators EXCEPT ![at[1]][at[2]] = r.iter]
                       /\ last' = [act |-> "ftq_iter_get_next", proc |-> q,
                                   iter |-> i,
                                   dangling |-> dangling(per_core_ftq_iterators[q], i),
                                   at |-> at, op |-> r.op, end_of_ft |-> r.end_of_ft,
                                   prev |-> op_log[q].advanced[i]]
                       /\ UNCHANGED <<params, per_core_ftq,
                                      per_core_current_ft_to_push,
                                      per_core_current_ft_in_use, per_core_off_path,
                                      per_core_sched_off_path, per_core_op_count,
                                      per_core_recovery_addr,
                                      per_core_redirect_cycle, per_core_stalled,
                                      per_core_ftq_ft_num,
                                      per_core_utility_timeliness_info, set_proc_id,
                                      fwd_progress, iterators_storage, cycle_count,
                                      fe_next_addr, op_pool, aborted>>
                       /\ op_log' = [op_log EXCEPT
                            ![q].advanced[i] = IF r.op # 0 THEN r.op ELSE @]

\* decoupled_fe_stall(op) called on its own, for the active core
Stall ==
  /\ ~aborted
  /\ per_core_stalled' =
       [per_core_stalled EXCEPT ![set_proc_id] = decoupled_fe_stall(@)]
  /\ last' = [act |-> "decoupled_fe_stall", proc |-> set_proc_id]
  /\ UNCHANGED <<params, per_core_ftq, per_core_current_ft_to_push,
                 per_core_current_ft_in_use, per_core_off_path,
                 per_core_sched_off_path, per_core_op_count, per_core_ftq_iterators,
                 per_core_recovery_addr, per_core_redirect_cycle,
                 per_core_ftq_ft_num, per_core_utility_timeliness_info,
                 set_proc_id, fwd_progress, cycle_count, fe_next_addr, op_pool,
                 aborted, op_log, iterators_storage>>

\* the prefetcher (FDIP) publishes its ratios, in hundredths, and asks for an
\* adjustment
FdipAdjust(proc_id, u, t) ==
  /\ ~aborted
  /\ per_core_utility_timeliness_info' =
       [per_core_utility_timeliness_info EXCEPT
          ![proc_id] = [utility_ratio |-> u, timeliness_ratio |-> t, adjust |-> TRUE]]
  /\ last' = [act |-> "fdip"]
  /\ UNCHANGED <<params, per_core_ftq, per_core_current_ft_to_push,
                 per_core_current_ft_in_use, per_core_off_path,
                 per_core_sched_off_path, per_core_op_count, per_core_ftq_iterators,
                 per_core_recovery_addr, per_core_redirect_cycle, per_core_stalled,
                 per_core_ftq_ft_num, set_proc_id, fwd_progress, cycle_count,
                 fe_next_addr, op_pool, aborted, op_log, iterators_storage>>

-----------------------------------------------------------------------------
(* The specifications.  In each, one core is in use and every call is made *)
(* for the active core (the caller has run set_decoupled_fe(proc_id)).     *)
(* They differ in the configuration and in the kinds of ops the external   *)
(* front-end yields.                                                       *)

Config ==
  [FE_FTQ_BLOCK_NUM |-> 2, UFTQ_MIN_FTQ_BLOCK_NUM |-> 1,
   UFTQ_MAX_FTQ_BLOCK_NUM |-> 3, FDIP_ADJUSTABLE_FTQ |-> 0,
   FDIP_BP_CONFIDENCE |-> FALSE, FE_FTQ_TAKEN_CFS_PER_CYCLE |-> 1,
   FE_FTQ_BYTES_PER_CYCLE |-> 8, ICACHE_LINE_SIZE |-> 8, trace_mode |-> FALSE,
   start_addr |-> 20]

Consumer ==
  \/ FetchOp(set_proc_id)
  \/ FetchFt(set_proc_id)
  \/ ReturnOp

Iterators ==
  \/ NewIter
  \/ \E i \in 1..MaxIters : IterGetNext(set_proc_id, i)

\* a recovery after which the external front-end resumes at the recovery
\* fetch address
Recovery(kinds, ubs) ==
  \E addr \in RecoveryAddrs, op_num \in RecoveryOpNums(set_proc_id),
     kind \in kinds, ub \in ubs :
    Recover(set_proc_id, addr, op_num, kind, TRUE, ub)

\* Spec: the queue, its consumer and its iterators over straight-line code,
\* macro-instructions of two micro-ops and discontinuities of the stream
MainKinds == {K_plain, K_uop1, K_uop2, K_jump}

Init == InitWith(Config)

Next ==
  \/ Tick(MainKinds)
  \/ ClockTick
  \/ Consumer
  \/ Iterators
  \/ Recovery(RecoveryKinds, {"wrap"})

Spec == Init /\ [][Next]_vars

\* SpecRecovery: mispredicted branches, fetch barriers, stalls and recoveries
OffPathKinds == {K_plain, K_mis_ex, K_bar}

NextRecovery ==
  \/ Tick(OffPathKinds)
  \/ ClockTick
  \/ FetchOp(set_proc_id)
  \/ Iterators
  \/ Recovery(RecoveryKinds, {"wrap"})

SpecRecovery == Init /\ [][NextRecovery]_vars

\* SpecDepth: the adaptive depth controller in its three modes, from an
\* initial depth inside and outside [UFTQ_MIN_FTQ_BLOCK_NUM,
\* UFTQ_MAX_FTQ_BLOCK_NUM], the prefetcher publishing ratios below, at and
\* above the thresholds
DepthConfigs ==
  {[Config EXCEPT !.FE_FTQ_BLOCK_NUM = d, !.FDIP_ADJUSTABLE_FTQ = m] :
     d \in {2}, m \in {1, 3}}

DepthRatios == {<<30, 50>>, <<100, 100>>}

DepthKinds == {K_plain}

InitDepth == \E cfg \in DepthConfigs : InitWith(cfg)

NextDepth ==
  \/ Tick(DepthKinds)
  \/ ClockUpTo(OnPathCycles)
  \/ Consumer
  \/ Iterators
  \/ Recovery({"recover_at_exec"}, Conversions)
  \/ \E barrier \in BOOLEAN, alone \in BOOLEAN : Retire(set_proc_id, barrier, alone)
  \/ \E r \in DepthRatios : FdipAdjust(set_proc_id, r[1], r[2])

SpecDepth == InitDepth /\ [][NextDepth]_vars

\* SpecController: the depth controller alone, in its three modes, from an
\* initial depth inside and outside [UFTQ_MIN_FTQ_BLOCK_NUM,
\* UFTQ_MAX_FTQ_BLOCK_NUM], with ratios below, at and above the thresholds
\* and both outcomes of the conversion of a negative double
ControllerConfigs ==
  {[Config EXCEPT !.FE_FTQ_BLOCK_NUM = d, !.FDIP_ADJUSTABLE_FTQ = m] :
     d \in {2, 5}, m \in {1, 2, 3}}

ControllerRatios == {<<30, 50>>, <<50, 77>>, <<70, 77>>, <<100, 100>>}

InitController == \E cfg \in ControllerConfigs : InitWith(cfg)

NextController ==
  \/ Tick(DepthKinds)
  \/ ClockUpTo(OnPathCycles)
  \/ FetchOp(set_proc_id)
  \/ Recovery({"recover_at_exec"}, Conversions)
  \/ \E r \in ControllerRatios : FdipAdjust(set_proc_id, r[1], r[2])

SpecController == InitController /\ [][NextController]_vars

\* SpecBuilder: the FT builder over every kind of op that ends an FT or
\* leaves it open, the consumer popping FTs to make room
BuilderKinds == {K_plain, K_uop1, K_uop2, K_br_nt, K_br_t, K_bar, K_bar_uop,
                 K_sys, K_exit, K_sys_exit}

NextBuilder ==
  \/ Tick(BuilderKinds)
  \/ FetchFt(set_proc_id)

SpecBuilder == Init /\ [][NextBuilder]_vars

\* SpecBarrier: fetch barriers and system calls, on an op that ends its
\* instruction and on a micro-op that does not, their retirement and the
\* recoveries
BarrierKinds == {K_plain, K_bar, K_bar_uop, K_sys}

NextBarrier ==
  \/ Tick(BarrierKinds)
  \/ ClockTick
  \/ FetchOp(set_proc_id)
  \/ Recovery({"none"}, {"wrap"})
  \/ \E barrier \in BOOLEAN, alone \in BOOLEAN : Retire(set_proc_id, barrier, alone)
  \/ Stall

SpecBarrier == Init /\ [][NextBarrier]_vars

\* SpecIterators: lookahead iterators reading and advancing over the FTQ
\* while the producer fills it and the consumer pops it
IteratorKinds == {K_plain, K_uop1, K_uop2}

NextIterators ==
  \/ Tick(IteratorKinds)
  \/ FetchFt(set_proc_id)
  \/ NewIter
  \/ \E i \in 1..MaxIters : IterGet(set_proc_id, i)
  \/ \E i \in 1..MaxIters : IterGetNext(set_proc_id, i)

SpecIterators == Init /\ [][NextIterators]_vars

\* SpecTakenBranch: the taken-branch scenario of the specification: depth 4,
\* 64-byte icache lines, 32 bytes and one taken control-flow op per cycle,
\* the external front-end starting at 0x2000 and yielding plain ops,
\* micro-ops and branches predicted taken to 0x3000
TakenBranchConfig ==
  [Config EXCEPT !.FE_FTQ_BLOCK_NUM = 4, !.ICACHE_LINE_SIZE = 64,
                 !.FE_FTQ_BYTES_PER_CYCLE = 32, !.FE_FTQ_TAKEN_CFS_PER_CYCLE = 1,
                 !.start_addr = 8192]

TakenBranchKinds == {K_plain, K_uop1, K_uop2, K_br_far}

InitTakenBranch == InitWith(TakenBranchConfig)

NextTakenBranch ==
  \/ Tick(TakenBranchKinds)
  \/ ClockTick
  \/ FetchOp(set_proc_id)
  \/ FetchFt(set_proc_id)
  \/ Recovery({"none"}, {"wrap"})

SpecTakenBranch == InitTakenBranch /\ [][NextTakenBranch]_vars

\* SpecAdvance: a lookahead iterator that reads the FTQ through get_next
\* alone while the producer pushes FTs of one and of two ops and the
\* consumer pops them, the external front-end yielding one op more than in
\* the other specifications
AdvanceKinds == {K_plain, K_uop1, K_uop2}

NextAdvance ==
  \/ TickUpTo(AdvanceKinds, MaxOps + 1, MaxIdle)
  \/ FetchFt(set_proc_id)
  \/ NewIter
  \/ \E i \in 1..MaxIters : IterGetNext(set_proc_id, i)

SpecAdvance == Init /\ [][NextAdvance]_vars

\* SpecLine: instructions of 4 and of 6 bytes, of one and of two micro-ops,
\* in I-cache lines of 8 bytes, so that an instruction ends before, on and
\* past the end of its line; a tick can close one FT and start the next
LineConfig == [Config EXCEPT !.FE_FTQ_BYTES_PER_CYCLE = 16]

LineKinds == {K_plain, K_long, K_uop1, K_uop2}

InitLine == InitWith(LineConfig)

NextLine ==
  \/ Tick(LineKinds)
  \/ ClockTick
  \/ FetchOp(set_proc_id)
  \/ FetchFt(set_proc_id)
  \/ Recovery({"none"}, {"wrap"})

SpecLine == InitLine /\ [][NextLine]_vars

\* SpecLive: the producer, the consumer and the back-end run for ever: the
\* producer ticks, the consumer calls fetch_op, and the back-end retires a
\* fetch-barrier op once the consumer has been handed it (the op is the last
\* one of the in-use FT and the read cursor is past it).  Recoveries may
\* happen; nothing says they do.
LiveKinds == {K_plain, K_bar, K_bar_uop}

\* the consumer of core p has been handed the fetch-barrier op that stalls p
BarrierDelivered(p) ==
  LET ft == per_core_current_ft_in_use[p]
  IN  /\ per_core_stalled[p]
      /\ ft.ops # <<>>
      /\ ft.op_pos = Len(ft.ops)
      /\ ft.ops[Len(ft.ops)].bar_fetch \/ IS_CALLSYS(ft.ops[Len(ft.ops)])

RetireDelivered == BarrierDelivered(set_proc_id) /\ Retire(set_proc_id, TRUE, TRUE)

\* A call of update_decoupled_fe while the active core is stalled by a fetch
\* barrier, its consumer cannot be handed an op and no delivered
\* fetch-barrier op awaits its retirement: the call counts itself (line 227)
\* and breaks at lines 274-281.
StalledTick ==
  /\ loop_break(tick_state(<<>>, 1)) = "FTQ_BREAK_BAR_FETCH"
  /\ ~decoupled_fe_can_fetch_op(set_proc_id)
  /\ ~BarrierDelivered(set_proc_id)
  /\ TickUpTo(LiveKinds, MaxOps, LiveIdle)

NextLive ==
  \/ TickUpTo(LiveKinds, MaxOps, LiveIdle)
  \/ ClockTick
  \/ FetchOp(set_proc_id)
  \/ RetireDelivered
  \/ Recovery({"none"}, {"wrap"})

\* a producer tick in which the external front-end yields one op: the
\* watchdog of lines 226-231 lets the call through, the first iteration of
\* the loop ends on no break and the op is allocated
ProducingTick ==
  /\ ~aborted
  /\ Len(op_pool) < MaxOps
  /\ fwd_progress + 1 < FWD_PROGRESS_LIMIT
  /\ loop_break(tick_state(<<K_plain>>, 1)) = "none"
  /\ op_pool' = alloc_op(op_pool)

\* The producer keeps ticking and the external front-end keeps yielding ops
\* (a step of the tick that produces one op is a step of ProducingTick, a
\* call on a stalled core is a step of StalledTick); the consumer keeps
\* calling fetch_op; a delivered fetch-barrier op is retired.
SpecLive ==
  /\ Init /\ [][NextLive]_vars
  /\ WF_vars(StalledTick)
  /\ WF_op_pool(ProducingTick)
  /\ WF_vars(FetchOp(set_proc_id))
  /\ WF_vars(RetireDelivered)

\* SpecWatchdog: the producer ticking on an external front-end that yields
\* one op at most, a plain op or the first micro-op of a fetch barrier;
\* every call of a run of calls that produce no op is followed, up to the
\* one the watchdog ends
WatchdogKinds == {K_plain, K_bar_uop}

NextWatchdog == TickUpTo(WatchdogKinds, 1, FWD_PROGRESS_LIMIT)

SpecWatchdog == Init /\ [][NextWatchdog]_vars

\* SpecTrace: the producer in trace mode over plain ops, taken and
\* mispredicted branches and system calls, with the recoveries and retirements that let
\* it go on
TraceConfig == [Config EXCEPT !.trace_mode = TRUE]

TraceKinds == {K_plain, K_br_t, K_mis_ex, K_sys}

InitTrace == InitWith(TraceConfig)

NextTrace ==
  \/ Tick(TraceKinds)
  \/ ClockTick
  \/ FetchFt(set_proc_id)
  \/ Recovery({"recover_at_exec"}, {"wrap"})
  \/ Retire(set_proc_id, TRUE, TRUE)

SpecTrace == InitTrace /\ [][NextTrace]_vars

\* SpecStraightLine: the straight-line fill scenario of the specification:
\* depth 4, 64-byte icache lines, 32 bytes and one taken control-flow op per
\* cycle, the external front-end yielding 8 plain 4-byte ops from 0x1000
StraightLine ==
  [config |-> [Config EXCEPT !.FE_FTQ_BLOCK_NUM = 4, !.ICACHE_LINE_SIZE = 64,
                             !.FE_FTQ_BYTES_PER_CYCLE = 32,
                             !.FE_FTQ_TAKEN_CFS_PER_CYCLE = 1,
                             !.start_addr = 4096],
   ops |-> 8]

InitStraightLine == InitWith(StraightLine.config)

NextStraightLine ==
  \/ TickUpTo({K_plain}, StraightLine.ops, MaxIdle)
  \/ FetchOp(set_proc_id)
  \/ FetchFt(set_proc_id)
  \/ NewIter
  \/ \E i \in 1..MaxIters : IterGet(set_proc_id, i)

SpecStraightLine == InitStraightLine /\ [][NextStraightLine]_vars

\* SpecCores: two cores; the caller switches the active core with
\* set_decoupled_fe and makes the calls that take a proc_id for either core,
\* whichever core is active
CoreKinds == {K_bar}

NextCores ==
  \/ \E p \in Cores : SetDecoupledFe(p)
  \/ Tick(CoreKinds)
  \/ ClockUpTo(OnPathCycles)
  \/ \E p \in Cores : FetchOp(p)
  \/ \E p \in Cores, addr \in RecoveryAddrs :
       \E op_num \in RecoveryOpNums(p) :
         Recover(p, addr, op_num, "none", TRUE, "wrap")
  \/ \E p \in Cores : Retire(p, TRUE, TRUE)
  \/ Stall

SpecCores == Init /\ [][NextCores]_vars

\* SpecHandles: two cores and their lookahead iterators: the caller switches
\* the active core, registers iterators for it and reads and advances them
\* through the handles decoupled_fe_new_ftq_iter returned.  The producer of
\* core 0 fills its FTQ with HandleOps micro-ops; core 1 has fetched nothing
\* yet and its FTQ is empty.
HandleKinds == {K_uop1, K_uop2}

HandleTick == set_proc_id = 0 /\ TickUpTo(HandleKinds, HandleOps, MaxIdle)

NextHandles ==
  \/ \E p \in Cores : SetDecoupledFe(p)
  \/ HandleTick
  \/ NewIter
  \/ \E i \in 1..MaxIters : IterGet(set_proc_id, i)
  \/ \E i \in 1..MaxIters : IterGetNext(set_proc_id, i)

SpecHandles == Init /\ [][NextHandles]_vars

-----------------------------------------------------------------------------
(* The properties. *)

\* the last call was update_decoupled_fe and it emitted the event e
Emitted(e) ==
  /\ last.act = "update_decoupled_fe"
  /\ \E i \in 1..Len(last.events) : last.events[i] = e

\* C1: in every reachable state of a core, whatever producer ticks, consumer
\* calls, iterator calls, retirements and recoveries (with their adaptive
\* resizing of the depth) came before, the number of FTs in the FTQ is at
\* most the current depth bound ftq_ft_num of the core.
C1_FtqWithinDepth ==
  \A p \in Cores : Len(per_core_ftq[p]) <= per_core_ftq_ft_num[p]

\* a producer tick stopped on a full FTQ whose depth a recovery had resized
C1_Witness ==
  /\ Emitted(<<"FTQ_BREAK_FULL_FT", "ONPATH">>)
  /\ per_core_ftq_ft_num[last.proc] # FE_FTQ_BLOCK_NUM
  /\ Len(per_core_ftq[last.proc]) = per_core_ftq_ft_num[last.proc]
  /\ Len(per_core_ftq[last.proc]) > 0

\* the ops a and b, adjacent in an FT, are contiguous
Contiguous(a, b) ==
  IF b.bom THEN b.addr = a.addr + a.size ELSE b.addr = a.addr

\* C2: in every reachable state every FT stored in the FTQ has a start and a
\* length different from 0, at least one op and a termination reason other
\* than INIT, and every two adjacent ops (a, b) of it are contiguous: b begins
\* a macro-instruction at a.addr + a.size, or continues the one of a at a.addr.
C2_StoredFtWellFormed ==
  \A p \in Cores : \A i \in 1..Len(per_core_ftq[p]) :
    LET ft == per_core_ftq[p][i]
    IN  /\ ft.start # 0
        /\ ft.length # 0
        /\ ft.ops # <<>>
        /\ ft.ended_by # "FT_ENDED_BY_INIT"
        /\ \A k \in 1..(Len(ft.ops) - 1) : Contiguous(ft.ops[k], ft.ops[k + 1])

\* the FTQ holds an FT with a pair of micro-ops of one macro-instruction and
\* a pair of consecutive macro-instructions
C2_Witness ==
  \E p \in Cores : \E i \in 1..Len(per_core_ftq[p]) :
    LET ops == per_core_ftq[p][i].ops
    IN  /\ \E k \in 1..(Len(ops) - 1) : ~ops[k + 1].bom
        /\ \E k \in 1..(Len(ops) - 1) : ops[k + 1].bom

\* the last call popped the head of the FTQ of core last.proc: fetch_ft, or
\* fetch_op on an exhausted in-use FT
Popped ==
  \/ last.act = "fetch_ft" /\ last.ret
  \/ last.act = "fetch_op" /\ last.ret /\ last.popped

\* the FTQ as it was before the last pop: the popped FT is the one in use
PrePopFtq == <<per_core_current_ft_in_use[last.proc]>> \o per_core_ftq[last.proc]

\* the op (its id, 0 when there is none) at the flattened position f of ftq
OpAtFlattened(ftq, f) ==
  LET all == Flatten([i \in 1..Len(ftq) |-> Ids(ftq[i].ops)])
  IN  IF f >= 0 /\ f < Len(all) THEN all[f + 1] ELSE 0

\* the statement of C3 for every iterator, whatever its position
C3_Original ==
  Popped =>
    \A i \in 1..Len(last.pre_iters) :
      OpAtFlattened(PrePopFtq, last.pre_iters[i].flattened_op_pos)
        = OpAtFlattened(per_core_ftq[last.proc],
                        per_core_ftq_iterators[last.proc][i].flattened_op_pos)

\* C3 (amended): for every registered iterator i that stands past the head FT
\* (ft_pos > 0) when the consumer pops the head of the FTQ (fetch_ft, or
\* fetch_op on an exhausted in-use FT), the op at i.flattened_op_pos before
\* the pop is the op at the new i.flattened_op_pos after the pop.
C3_StableUnderPop ==
  Popped =>
    \A i \in 1..Len(last.pre_iters) :
      last.pre_iters[i].ft_pos > 0 =>
        OpAtFlattened(PrePopFtq, last.pre_iters[i].flattened_op_pos)
          = OpAtFlattened(per_core_ftq[last.proc],
                          per_core_ftq_iterators[last.proc][i].flattened_op_pos)

\* a pop under an iterator that stood on an op of the second FT
C3_Witness ==
  /\ Popped
  /\ \E i \in 1..Len(last.pre_iters) :
       /\ last.pre_iters[i].ft_pos > 0
       /\ OpAtFlattened(PrePopFtq, last.pre_iters[i].flattened_op_pos) # 0

\* C4: when the consumer pops the head FT, holding k ops, every iterator
\* with ft_pos > 0 before the pop has its ft_pos decreased by 1, its
\* flattened_op_pos decreased by k and its op_pos unchanged, and
\* decoupled_fe_ftq_iter_get returns for it the op it returned before the pop
\* (NULL when it was parked past the last FT); every iterator with ft_pos = 0
\* before the pop has op_pos = 0 and flattened_op_pos = 0 and keeps ft_pos = 0.
C4_RebaseOnPop ==
  Popped =>
    \A i \in 1..Len(last.pre_iters) :
      LET pre == last.pre_iters[i]
          post == per_core_ftq_iterators[last.proc][i]
          k == Len(per_core_current_ft_in_use[last.proc].ops)
      IN  IF pre.ft_pos > 0
            THEN /\ post.ft_pos = pre.ft_pos - 1
                 /\ post.flattened_op_pos = pre.flattened_op_pos - k
                 /\ post.op_pos = pre.op_pos
                 /\ decoupled_fe_ftq_iter_get(per_core_ftq[last.proc], post).op
                      = decoupled_fe_ftq_iter_get(PrePopFtq, pre).op
            ELSE post.ft_pos = 0 /\ post.op_pos = 0 /\ post.flattened_op_pos = 0

\* a pop under an iterator past the head FT for which
\* decoupled_fe_ftq_iter_get returns an op
C4_Witness ==
  /\ Popped
  /\ \E i \in 1..Len(last.pre_iters) :
       /\ last.pre_iters[i].ft_pos > 0
       /\ decoupled_fe_ftq_iter_get(per_core_ftq[last.proc],
                                    per_core_ftq_iterators[last.proc][i]).op # 0

\* the last call was recover_decoupled_fe for core last.proc
Recovered == last.act = "recover_decoupled_fe"

\* C5: immediately after recover_decoupled_fe for a core, the caller having
\* made that core the active one, the FTQ of the core is empty, its FT
\* builder and its in-use FT hold no ops (start = length = 0, ended_by = INIT,
\* cursor 0), every iterator of the core is (0, 0, 0), off_path is false, the
\* fetch-barrier stall is cleared, can_fetch_op is false and the pending
\* recovery address is the recovery fetch address.
C5_StateAfterRecovery ==
  Recovered =>
    LET p == last.proc
    IN  /\ per_core_ftq[p] = <<>>
        /\ per_core_current_ft_to_push[p] = FT
        /\ per_core_current_ft_in_use[p] = FT
        /\ \A i \in 1..Len(per_core_ftq_iterators[p]) :
             per_core_ftq_iterators[p][i] = decoupled_fe_iter
        /\ ~per_core_off_path[p]
        /\ ~per_core_stalled[p]
        /\ ~decoupled_fe_can_fetch_op(p)
        /\ per_core_recovery_addr[p] = last.recovery_fetch_addr

\* a recovery of a core that was off-path, stalled on a fetch barrier and had
\* FTs in its FTQ
C5_Witness ==
  /\ Recovered
  /\ last.pre_fts > 0
  /\ last.pre_off_path
  /\ last.pre_stalled

\* C6: between two consecutive recoveries of a core the op_num values stamped
\* on the ops it produces increase by one from each op to the next in
\* production order, and the first op produced after a recovery whose
\* recovery op has op_num N is stamped N + 1.
C6_OpNumSequence ==
  \A p \in Cores :
    LET stamped == op_log[p].stamped
    IN  /\ \A k \in 1..(Len(stamped) - 1) : stamped[k + 1] = stamped[k] + 1
        /\ (op_log[p].recovery_op_num >= 0 /\ stamped # <<>>) =>
             stamped[1] = op_log[p].recovery_op_num + 1

\* two ops or more produced since a recovery
C6_Witness ==
  \E p \in Cores : op_log[p].recovery_op_num >= 0 /\ Len(op_log[p].stamped) >= 2

RECURSIVE SumSeq(_)
SumSeq(s) == IF s = <<>> THEN 0 ELSE Head(s) + SumSeq(Tail(s))

\* the FTs a core holds: its FTQ, its in-use FT and its FT builder
HeldFts(p) ==
  per_core_ftq[p] \o <<per_core_current_ft_in_use[p], per_core_current_ft_to_push[p]>>

\* the calls of alloc_op and of free_op so far
Allocated == Len(op_pool)
Freed == SumSeq([i \in 1..Len(op_pool) |-> op_pool[i].frees])

\* the ops in the FTs the cores hold, and those of them at or after the read
\* cursor of their FT
Held ==
  SumSeq([c \in 1..Cardinality(Cores) |->
            SumSeq([i \in 1..Len(HeldFts(c - 1)) |-> Len(HeldFts(c - 1)[i].ops)])])
HeldUndelivered ==
  SumSeq([c \in 1..Cardinality(Cores) |->
            SumSeq([i \in 1..Len(HeldFts(c - 1)) |->
                      Len(undelivered(HeldFts(c - 1)[i]))])])

\* the ops fetch_op has delivered and return_op has not returned, and the
\* ops that were at or after the cursor of an in-use FT when fetch_ft
\* replaced it
Delivered == Cardinality({i \in 1..Len(op_pool) : op_pool[i].out})
Replaced == Cardinality({i \in 1..Len(op_pool) : op_pool[i].dropped})

\* the statement of C7: allocated = freed + held
C7_Original == Allocated = Freed + Held

\* C7 (amended): in every reachable state the number of ops allocated by the
\* producer equals the number of ops freed by the front-end, plus the ops
\* held at or after the read cursor in the FTQ, the in-use FT and the FT
\* builder, plus the ops delivered to the consumer and not returned, plus the
\* undelivered ops of an in-use FT that a direct fetch_ft replaced.
C7_OpAccounting == Allocated = Freed + HeldUndelivered + Delivered + Replaced

\* ops freed, ops held and ops delivered whose FT is no longer in use
C7_Witness ==
  /\ Freed > 0
  /\ HeldUndelivered > 0
  /\ \E i \in 1..Len(op_pool) :
       /\ op_pool[i].out
       /\ \A p \in Cores : \A k \in 1..Len(per_core_current_ft_in_use[p].ops) :
            per_core_current_ft_in_use[p].ops[k].id # i

\* the ops (their ids) at or after the read cursor of an FT that a core holds
HeldUndeliveredIds ==
  UNION {UNION {{undelivered(HeldFts(p)[i])[k] :
                   k \in 1..Len(undelivered(HeldFts(p)[i]))} :
                  i \in 1..Len(HeldFts(p))} : p \in Cores}

\* C8: free_op runs on an allocated op at most once, in a recovery, only on an
\* op that the front-end holds at or after the read cursor of the FT builder,
\* of an FTQ entry or of the in-use FT, and never on an op that fetch_op has
\* delivered and return_op has not returned.
C8_FreedOnceIfUndelivered ==
  [][\A i \in 1..Len(op_pool) :
       op_pool'[i].frees # op_pool[i].frees =>
         /\ op_pool[i].frees = 0 /\ op_pool'[i].frees = 1
         /\ last'.act = "recover_decoupled_fe"
         /\ i \in HeldUndeliveredIds
         /\ ~op_pool[i].out]_vars

\* a recovery that found FTs in the FTQ and freed their ops, while an op it
\* did not free is delivered
C8_Witness ==
  /\ Recovered
  /\ last.pre_fts > 0
  /\ \E i \in 1..Len(op_pool) : op_pool[i].frees = 1
  /\ \E i \in 1..Len(op_pool) : op_pool[i].out /\ op_pool[i].frees = 0

\* C9: with the adaptive depth enabled (FDIP_ADJUSTABLE_FTQ in {1, 2, 3}),
\* after every recovery the depth bound ftq_ft_num of the core lies in
\* [UFTQ_MIN_FTQ_BLOCK_NUM, UFTQ_MAX_FTQ_BLOCK_NUM], for every initial depth
\* FE_FTQ_BLOCK_NUM, every value of the ratios and whether or not the adjust
\* flag is set.
C9_DepthInRange ==
  (FDIP_ADJUSTABLE_FTQ \in {1, 2, 3} /\ Recovered) =>
    /\ per_core_ftq_ft_num[last.proc] >= UFTQ_MIN_FTQ_BLOCK_NUM
    /\ per_core_ftq_ft_num[last.proc] <= UFTQ_MAX_FTQ_BLOCK_NUM

\* the last call was the return_op of the op that the fetch_op right before
\* it had delivered
FetchedThenReturned == last.act = "return_op" /\ last.undoes

\* the statement of C10: the read cursor and can_fetch_op are what they were
\* before the fetch_op, also when the fetch_op popped a new FT
C10_Original ==
  FetchedThenReturned =>
    /\ per_core_current_ft_in_use[last.proc].op_pos = last.pre_cursor
    /\ decoupled_fe_can_fetch_op(last.proc) = last.pre_can

\* C10 (amended): from any state in which can_fetch_op is true, fetch_op
\* followed by return_op of the delivered op restores can_fetch_op, and
\* restores the read cursor of the in-use FT when the fetch_op did not pop a
\* new FT; when it popped one, that FT stays in use with its read cursor at 0.
C10_FetchThenReturn ==
  FetchedThenReturned =>
    /\ decoupled_fe_can_fetch_op(last.proc) = last.pre_can
    /\ per_core_current_ft_in_use[last.proc].op_pos
         = IF last.popped THEN 0 ELSE last.pre_cursor

\* an op returned right after a fetch_op that had popped its FT over an in-use
\* FT whose ops had all been delivered
C10_Witness ==
  /\ FetchedThenReturned
  /\ last.popped
  /\ last.pre_cursor > 0

\* the amount the events of one call add to the statistic name: a STAT_EVENT
\* adds 1, an INC_STAT_EVENT its operand
StatIncrement(events, name) ==
  SumSeq([i \in 1..Len(events) |->
            IF events[i][1] # name THEN 0
            ELSE IF Len(events[i]) = 2 THEN events[i][2] ELSE 1])

\* C11: a second recovery executed right after a recovery of the same core,
\* with the same recovery info and no call in between, changes nothing: the
\* FTQ, the builder, the in-use FT, the iterators, the op counter, the
\* off-path flags and the depth bound are what the first recovery left, and
\* the statistics FTQ_RECOVER_DECODE, FTQ_RECOVER_EXEC and FTQ_OFFPATH_CYCLES
\* stand where the first recovery left them.
C11_SecondRecoveryNoOp ==
  [][(/\ last.act = "recover_decoupled_fe"
      /\ last'.act = "recover_decoupled_fe"
      /\ last'.proc = last.proc
      /\ last'.recovery_fetch_addr = last.recovery_fetch_addr
      /\ last'.recovery_op_num = last.recovery_op_num)
     => LET p == last.proc
        IN  /\ per_core_ftq'[p] = per_core_ftq[p]
            /\ per_core_current_ft_to_push'[p] = per_core_current_ft_to_push[p]
            /\ per_core_current_ft_in_use'[p] = per_core_current_ft_in_use[p]
            /\ per_core_ftq_iterators'[p] = per_core_ftq_iterators[p]
            /\ per_core_op_count'[p] = per_core_op_count[p]
            /\ per_core_off_path'[p] = per_core_off_path[p]
            /\ per_core_sched_off_path'[p] = per_core_sched_off_path[p]
            /\ per_core_ftq_ft_num'[p] = per_core_ftq_ft_num[p]
            /\ \A name \in {"FTQ_RECOVER_DECODE", "FTQ_RECOVER_EXEC",
                            "FTQ_OFFPATH_CYCLES"} :
                 StatIncrement(last'.events, name) = 0]_vars

\* C12: can_fetch_op(core) is true exactly when the in-use FT of the core has
\* an undelivered op (read cursor < number of ops) or its FTQ is non-empty;
\* a fetch_op returns true exactly when can_fetch_op was true just before the
\* call, and a fetch_op that returns false changes no state.
C12_FetchOpIffCanFetch ==
  [][/\ \A p \in Cores :
          decoupled_fe_can_fetch_op(p)
            = (\/ per_core_current_ft_in_use[p].op_pos
                    < Len(per_core_current_ft_in_use[p].ops)
               \/ Len(per_core_ftq[p]) > 0)
     /\ last'.act = "fetch_op" =>
          /\ last'.ret = decoupled_fe_can_fetch_op(last'.proc)
          /\ ~last'.ret => UNCHANGED <<params, fe_state, cycle_count,
                                       fe_next_addr, op_pool, aborted, op_log>>]_vars

\* a fetch_op that found every op of the in-use FT delivered and the FTQ
\* empty, and returned false
C12_Witness ==
  /\ last.act = "fetch_op"
  /\ ~last.ret
  /\ per_core_current_ft_in_use[last.proc].op_pos > 0

\* the op that the next fetch_op of core p would deliver: the op at the read
\* cursor of the in-use FT, or the first op of the FTQ head when every op of
\* the in-use FT has been delivered
NextOpToDeliver(p) ==
  LET ft == per_core_current_ft_in_use[p]
  IN  IF ft_can_fetch_op(ft) THEN ft.ops[ft.op_pos + 1]
      ELSE Head(per_core_ftq[p]).ops[1]

\* C13: next_fetch_addr defers to the external front-end's next fetch
\* address exactly when the FTQ is empty and the in-use FT has no undelivered
\* op; in every other state it returns the address of the op that the next
\* fetch_op would deliver.
C13_NextFetchAddr ==
  \A p \in Cores :
    LET r == decoupled_fe_next_fetch_addr(p)
    IN  /\ r.asserts
        /\ r.defers = ~decoupled_fe_can_fetch_op(p)
        /\ decoupled_fe_can_fetch_op(p) => r.addr = NextOpToDeliver(p).addr

\* the FT termination reason that C14 states for a produced op
TerminationReason(op) ==
  IF ~op.eom THEN "FT_ENDED_BY_INIT"
  ELSE IF op.exit THEN "FT_APP_EXIT"
  ELSE IF op.cf_type = "CF_SYS" \/ op.bar_fetch THEN "FT_BAR_FETCH"
  ELSE IF op.cf_type # "NOT_CF" /\ op.pred_taken THEN "FT_TAKEN_BRANCH"
  ELSE IF op.addr + op.size - (op.addr - (op.addr % ICACHE_LINE_SIZE))
            >= ICACHE_LINE_SIZE
    THEN "FT_ICACHE_LINE_BOUNDARY"
  ELSE "FT_ENDED_BY_INIT"

\* every op of ft before its last one left the FT open
OpenBeforeLast(ft) ==
  \A j \in 1..(Len(ft.ops) - 1) :
    TerminationReason(ft.ops[j]) = "FT_ENDED_BY_INIT"

\* C14: the termination reason of a produced op is INIT if the op is not
\* eom, else the first that applies of APP_EXIT, BAR_FETCH, TAKEN_BRANCH and
\* ICACHE_LINE_BOUNDARY, else INIT; the FT is pushed to the FTQ in the tick
\* that produced the op exactly when the reason is not INIT.  So every FT of
\* the FTQ ends with its only op of a reason other than INIT and records that
\* reason, and no op held by the builder between two ticks has such a reason.
C14_TerminationReason ==
  \A p \in Cores :
    /\ \A i \in 1..Len(per_core_ftq[p]) :
         LET ft == per_core_ftq[p][i]
         IN  /\ ft.ops # <<>>
             /\ ft.ended_by = TerminationReason(ft.ops[Len(ft.ops)])
             /\ ft.ended_by # "FT_ENDED_BY_INIT"
             /\ OpenBeforeLast(ft)
    /\ LET cur == per_core_current_ft_to_push[p]
       IN  /\ cur.ended_by = "FT_ENDED_BY_INIT"
           /\ \A j \in 1..Len(cur.ops) :
                TerminationReason(cur.ops[j]) = "FT_ENDED_BY_INIT"

\* an FT of two ops pushed with reason BAR_FETCH by a system call that is
\* also predicted taken and ends its icache line
C14_Witness ==
  \E p \in Cores : \E i \in 1..Len(per_core_ftq[p]) :
    LET ft == per_core_ftq[p][i]
    IN  /\ Len(ft.ops) >= 2
        /\ ft.ended_by = "FT_BAR_FETCH"
        /\ ft.ops[Len(ft.ops)].pred_taken
        /\ (ft.ops[Len(ft.ops)].addr + 4) % ICACHE_LINE_SIZE = 0

\* the op is a system call or carries the fetch-barrier bit
IsBarrier(op) == op.cf_type = "CF_SYS" \/ op.bar_fetch

\* the ops that core p holds in its FTQ and its builder after the step
HeldOpsAfter(p) ==
  Flatten([i \in 1..Len(per_core_ftq'[p]) |-> per_core_ftq'[p][i].ops])
    \o per_core_current_ft_to_push'[p].ops

\* the step is a producer tick of core p
TickOf(p) == last'.act = "update_decoupled_fe" /\ last'.proc = p

\* C15: when a tick produces a system call or an op with the fetch-barrier
\* bit, the FT is closed (the builder is left empty), the producer is stalled
\* and that op is the last one the tick produces; while the core is stalled
\* a tick produces no op, and the stall ends only by decoupled_fe_retire of a
\* system call or fetch-barrier op or by a recovery; each of those clears the
\* stall, and a tick of a core that is not stalled does not end on
\* FTQ_BREAK_BAR_FETCH unless it has itself produced such an op.
C15_BarrierStall ==
  [][\A p \in Cores :
       /\ TickOf(p) =>
            /\ \A k \in 1..Len(HeldOpsAfter(p)) :
                 LET o == HeldOpsAfter(p)[k]
                 IN  (o.id > Len(op_pool) /\ IsBarrier(o)) =>
                       /\ o.id = Len(op_pool')
                       /\ per_core_stalled'[p]
                       /\ per_core_current_ft_to_push'[p].ops = <<>>
            /\ per_core_stalled[p] => Len(op_pool') = Len(op_pool)
            /\ (~per_core_stalled[p] /\ ~per_core_stalled'[p]) =>
                 last'.events[Len(last'.events)][1] # "FTQ_BREAK_BAR_FETCH"
       /\ (per_core_stalled[p] /\ ~per_core_stalled'[p]) =>
            \/ last'.act = "recover_decoupled_fe" /\ last'.proc = p
            \/ last'.act = "decoupled_fe_retire" /\ last'.proc = p /\ last'.barrier
       /\ (\/ last'.act = "recover_decoupled_fe" /\ last'.proc = p
           \/ last'.act = "decoupled_fe_retire" /\ last'.proc = p /\ last'.barrier)
            => ~per_core_stalled'[p]]_vars

\* the depth d clamped into [UFTQ_MIN_FTQ_BLOCK_NUM, UFTQ_MAX_FTQ_BLOCK_NUM]
ClampDepth(d) ==
  IF d < UFTQ_MIN_FTQ_BLOCK_NUM THEN UFTQ_MIN_FTQ_BLOCK_NUM
  ELSE IF d > UFTQ_MAX_FTQ_BLOCK_NUM THEN UFTQ_MAX_FTQ_BLOCK_NUM
  ELSE d

\* the step is a recovery of core p that found the adjust flag set
AdjustingRecovery(p) ==
  /\ last'.act = "recover_decoupled_fe"
  /\ last'.proc = p
  /\ per_core_utility_timeliness_info[p].adjust

\* C16: in utility-only mode (FDIP_ADJUSTABLE_FTQ = 1) a recovery with the
\* adjust flag set replaces the depth d by d - round(d * (0.70 - U)) when
\* U < 0.70 and by d + round(d * (U - 0.70)) when U > 0.70, clamped into
\* [UFTQ_MIN_FTQ_BLOCK_NUM, UFTQ_MAX_FTQ_BLOCK_NUM]; timeliness-only mode (2)
\* does the same with the threshold 0.77 and the timeliness ratio.
C16_SingleRatioAdjustment ==
  [][\A p \in Cores :
       (AdjustingRecovery(p) /\ FDIP_ADJUSTABLE_FTQ \in {1, 2}) =>
         LET d == per_core_ftq_ft_num[p]
             info == per_core_utility_timeliness_info[p]
             r == IF FDIP_ADJUSTABLE_FTQ = 1 THEN info.utility_ratio
                  ELSE info.timeliness_ratio
             th == IF FDIP_ADJUSTABLE_FTQ = 1 THEN 70 ELSE 77
         IN  /\ r < th => per_core_ftq_ft_num'[p]
                            = ClampDepth(d - Round(d * (th - r), 100))
             /\ r > th => per_core_ftq_ft_num'[p]
                            = ClampDepth(d + Round(d * (r - th), 100))]_vars

\* the hypothetical depth of one rule of the controller, from the depth d
HypotheticalDepth(d, r, th) ==
  IF r < th THEN d - Round(d * (th - r), 100)
  ELSE IF r > th THEN d + Round(d * (r - th), 100)
  ELSE d

\* round(-2.3*a - 31.2*b + 0.007*a^2 + 0.1*b^2 + 0.3*a*b), a signed integer
CombinedPolynomial(a, b) ==
  Round(7 * a * a + 100 * b * b + 300 * a * b - 2300 * a - 31200 * b, 1000)

\* C17: in combined mode (FDIP_ADJUSTABLE_FTQ = 3) a recovery with the adjust
\* flag set computes both hypothetical depths qdaur and qdatr from the
\* original depth and sets the depth to the polynomial of the two, clamped:
\* UFTQ_MIN_FTQ_BLOCK_NUM whenever the polynomial is below it, negative values
\* included, UFTQ_MAX_FTQ_BLOCK_NUM whenever it is above it.
C17_CombinedAdjustment ==
  [][\A p \in Cores :
       (AdjustingRecovery(p) /\ FDIP_ADJUSTABLE_FTQ = 3) =>
         LET d == per_core_ftq_ft_num[p]
             info == per_core_utility_timeliness_info[p]
             qdaur == HypotheticalDepth(d, info.utility_ratio, 70)
             qdatr == HypotheticalDepth(d, info.timeliness_ratio, 77)
         IN  per_core_ftq_ft_num'[p]
               = ClampDepth(CombinedPolynomial(qdaur, qdatr))]_vars

\* C18: after a recovery in which the depth controller ran (FDIP_ADJUSTABLE_FTQ
\* in {1, 2, 3} and the adjust flag of the core was set), the adjust flag of
\* that core is false.
C18_AdjustFlagCleared ==
  [][\A p \in Cores :
       (AdjustingRecovery(p) /\ FDIP_ADJUSTABLE_FTQ \in {1, 2, 3}) =>
         ~per_core_utility_timeliness_info'[p].adjust]_vars

\* C19: get(iter) returns no op exactly when the FTQ is empty or iter.ft_pos
\* equals the number of FTs of the FTQ; otherwise it returns the op at
\* position op_pos of the FT at position ft_pos, and sets end_of_ft exactly
\* when op_pos is the index of the last op of that FT.  get changes neither
\* the iterator nor the FTQ, and none of its ASSERTs fires.  The formula
\* takes the calls the claim is surest of: those through a handle that no
\* later decoupled_fe_new_ftq_iter has left dangling.
C19_IterGet ==
  [][/\ ~(last'.act = "abort" /\ last'.in = "decoupled_fe_ftq_iter_get")
     /\ (last'.act = "ftq_iter_get" /\ ~last'.dangling) =>
       LET ftq == per_core_ftq[last'.proc]
           iter == per_core_ftq_iterators[last'.proc][last'.iter]
           none == ftq = <<>> \/ iter.ft_pos = Len(ftq)
       IN  /\ (last'.op = 0) = none
           /\ ~none =>
                /\ last'.op = ftq[iter.ft_pos + 1].ops[iter.op_pos + 1].id
                /\ last'.end_of_ft
                     = (iter.op_pos + 1 = Len(ftq[iter.ft_pos + 1].ops))
           /\ UNCHANGED <<per_core_ftq, per_core_ftq_iterators>>]_vars

\* the visits of an iterator that advances over the fixed FTQ ftq from iter
\* until it gets no op: the op it gets and its flattened_op_pos, and at the
\* end op 0 and the flattened_op_pos it parks with
RECURSIVE IterWalk(_, _)
IterWalk(ftq, iter) ==
  LET r == decoupled_fe_ftq_iter_get_next(ftq, iter)
      v == [op |-> r.op, flat |-> r.iter.flattened_op_pos]
  IN  IF r.op = 0 \/ ~r.asserts THEN <<v>> ELSE <<v>> \o IterWalk(ftq, r.iter)

\* the visits of an iterator started at (0, 0, 0): a get, then advances
IterVisits(ftq) ==
  LET g == decoupled_fe_ftq_iter_get(ftq, decoupled_fe_iter)
  IN  IF g.op = 0 THEN << [op |-> 0, flat |-> 0] >>
      ELSE << [op |-> g.op, flat |-> 0] >> \o IterWalk(ftq, decoupled_fe_iter)

\* the ops of ftq in FIFO order, each with the number of ops before it, and
\* at the end op 0 with the number of ops of ftq
FifoVisits(ftq) ==
  LET ids == Ids(Flatten([i \in 1..Len(ftq) |-> ftq[i].ops]))
  IN  [k \in 1..(Len(ids) + 1) |->
         [op |-> IF k <= Len(ids) THEN ids[k] ELSE 0, flat |-> k - 1]]

\* C20: advance(iter) over a fixed FTQ of n FTs.  Parked (ft_pos = n): it
\* changes nothing and returns no op.  At the last op of the last FT: it moves
\* to (n, 0), increments flattened_op_pos and returns no op.  At the last op
\* of another FT: it moves to (ft_pos + 1, 0), else to (ft_pos, op_pos + 1),
\* increments flattened_op_pos and returns the op there.  So an iterator
\* started at (0, 0, 0) visits every op of the FTQ once, in FIFO order, with
\* flattened_op_pos equal to the number of ops it has passed.  The formula
\* takes the calls through a handle that no later decoupled_fe_new_ftq_iter
\* has left dangling, and none of them ends the run.
C20_IterAdvance ==
  [][/\ ~(last'.act = "abort" /\ last'.in = "decoupled_fe_ftq_iter_get_next")
     /\ \A p \in Cores : IterVisits(per_core_ftq[p]) = FifoVisits(per_core_ftq[p])
     /\ (last'.act = "ftq_iter_get_next" /\ ~last'.dangling) =>
          LET ftq == per_core_ftq[last'.proc]
              n == Len(ftq)
              it == per_core_ftq_iterators[last'.proc][last'.iter]
              to == per_core_ftq_iterators'[last'.proc][last'.iter]
              moved(f, o) == [ft_pos |-> f, op_pos |-> o,
                              flattened_op_pos |-> it.flattened_op_pos + 1]
          IN  /\ per_core_ftq' = per_core_ftq
              /\ IF it.ft_pos = n
                   THEN to = it /\ last'.op = 0
                 ELSE IF it.op_pos + 1 < Len(ftq[it.ft_pos + 1].ops)
                   THEN /\ to = moved(it.ft_pos, it.op_pos + 1)
                        /\ last'.op = ftq[it.ft_pos + 1].ops[it.op_pos + 2].id
                 ELSE IF it.ft_pos + 1 < n
                   THEN /\ to = moved(it.ft_pos + 1, 0)
                        /\ last'.op = ftq[it.ft_pos + 2].ops[1].id
                 ELSE to = moved(n, 0) /\ last'.op = 0]_vars

\* the external front-end has yielded the 8 ops of the straight-line scenario
StraightLineFed == Len(op_pool) = StraightLine.ops

\* the statement of C21: the 8 ops leave exactly two FTs in the FTQ, closed
\* by ICACHE_LINE_BOUNDARY, at (0x1000, 16) and (0x1040, 16)
C21_Original ==
  (StraightLineFed /\ last.act = "update_decoupled_fe") =>
    /\ Len(per_core_ftq[0]) = 2
    /\ \A i \in 1..Len(per_core_ftq[0]) :
         per_core_ftq[0][i].ended_by = "FT_ICACHE_LINE_BOUNDARY"
    /\ per_core_ftq[0][1].start = 4096 /\ per_core_ftq[0][1].length = 16
    /\ per_core_ftq[0][2].start = 4160 /\ per_core_ftq[0][2].length = 16

\* C21 (amended): with depth bound 4, ICACHE_LINE_SIZE = 64,
\* FE_FTQ_BYTES_PER_CYCLE = 32 and FE_FTQ_TAKEN_CFS_PER_CYCLE = 1, 8
\* straight-line ops of 4 bytes from 0x1000 end at 0x1020, inside the icache
\* line of 0x1000: no FT is closed, the FTQ stays empty, and the 8 ops are in
\* the open builder (start 0x1000, length 0, ended_by INIT), in order.
C21_StraightLineFill ==
  (StraightLineFed /\ last.act = "update_decoupled_fe") =>
    /\ per_core_ftq[0] = <<>>
    /\ LET cur == per_core_current_ft_to_push[0]
       IN  /\ Len(cur.ops) = 8
           /\ \A j \in 1..Len(cur.ops) : cur.ops[j].addr = 4096 + 4 * (j - 1)
           /\ cur.start = 4096
           /\ cur.length = 0
           /\ cur.ended_by = "FT_ENDED_BY_INIT"

\* the tick that yields all 8 ops at once and breaks on the byte budget
C21_Witness ==
  /\ StraightLineFed
  /\ last.act = "update_decoupled_fe"
  /\ Len(SelectSeq(last.events, LAMBDA e : e[1] = "FTQ_FETCHED_INS"))
       = StraightLine.ops
  /\ last.events[Len(last.events)] = <<"FTQ_BREAK_MAX_BYTES", "ONPATH">>

\* core p has recovered and its producer has produced no op since
NoOpSinceRecovery(p) ==
  op_log[p].recovery_op_num # -1 /\ op_log[p].stamped = <<>>

\* C22: after a recovery with a non-zero recovery fetch address the address
\* is pending until the producer produces its next op; a tick that produces
\* ops while an address is pending either produces first an op at that
\* address or aborts; the first op produced clears the pending address, so it
\* is non-zero only between a recovery and the first op produced after it.
C22_PendingRecoveryAddr ==
  [][\A p \in Cores :
       /\ per_core_recovery_addr[p] # 0 => NoOpSinceRecovery(p)
       /\ (last'.act = "recover_decoupled_fe" /\ last'.proc = p) =>
            per_core_recovery_addr'[p] = last'.recovery_fetch_addr
       /\ (TickOf(p) /\ per_core_recovery_addr[p] # 0) =>
            IF Len(op_pool') = Len(op_pool)
              THEN per_core_recovery_addr'[p] = per_core_recovery_addr[p]
              ELSE /\ per_core_recovery_addr'[p] = 0
                   /\ \A k \in 1..Len(HeldOpsAfter(p)) :
                        HeldOpsAfter(p)[k].id = Len(op_pool) + 1 =>
                          HeldOpsAfter(p)[k].addr = per_core_recovery_addr[p]]_vars

\* a tick that produced the first op after a recovery, at the recovery
\* fetch address, and cleared the pending address
C22_Witness ==
  /\ last.act = "update_decoupled_fe"
  /\ op_log[0].recovery_op_num # -1
  /\ Len(op_log[0].stamped) >= 1
  /\ per_core_recovery_addr[0] = 0
  /\ \E k \in 1..Len(per_core_current_ft_to_push[0].ops) :
       per_core_current_ft_to_push[0].ops[k].addr = 24

\* the per-core state of core q that C23 lists
CoreState(q) ==
  <<per_core_ftq[q], per_core_current_ft_to_push[q],
    per_core_current_ft_in_use[q], per_core_ftq_iterators[q],
    per_core_op_count[q], per_core_off_path[q], per_core_sched_off_path[q],
    per_core_recovery_addr[q], per_core_stalled[q], per_core_ftq_ft_num[q]>>

\* C23: an operation invoked for core p (a producer tick, fetch_op(p),
\* fetch_ft(p), recover(p), retire, an iterator call) leaves the FTQ, builder,
\* in-use FT, iterators, op counter, off-path flags, pending recovery
\* address, stall flag and depth bound of every other core unchanged,
\* whichever core is the active one.
C23_CoresDoNotInteract ==
  [][\A p \in Cores, q \in Cores :
       (/\ q # p
        /\ last'.act \in {"update_decoupled_fe", "fetch_op", "fetch_ft",
                          "return_op", "recover_decoupled_fe",
                          "decoupled_fe_retire", "decoupled_fe_stall",
                          "new_ftq_iter", "ftq_iter_get", "ftq_iter_get_next"}
        /\ last'.proc = p)
       => CoreState(q)' = CoreState(q)]_vars

\* the sequence a is a prefix of the sequence b
IsPrefix(a, b) ==
  /\ Len(a) <= Len(b)
  /\ \A i \in 1..Len(a) : a[i] = b[i]

\* C24: between two consecutive recoveries the sequence of ops that fetch_op
\* has delivered to the consumer, an op returned and delivered again counted
\* once, is a prefix of the sequence of ops the producer has produced since
\* the recovery, in production order.
C24_DeliveredPrefixOfProduced ==
  \A p \in Cores : IsPrefix(op_log[p].delivered, op_log[p].stamped)


\* the ops that the tick of core p has produced, in production order
NewOps(p) == SelectSeq(HeldOpsAfter(p), LAMBDA o : o.id > Len(op_pool))

\* the position in events of the FTQ_FETCHED_INS event of the k-th op of the
\* call: the producer emits one per op, after the op's redirect if any
FetchedAt(events, k) ==
  CHOOSE j \in 1..Len(events) :
    /\ events[j][1] = "FTQ_FETCHED_INS"
    /\ Cardinality({i \in 1..j : events[i][1] = "FTQ_FETCHED_INS"}) = k

\* the k-th op of the call was followed by a frontend_redirect
OpRedirects(events, k) ==
  FetchedAt(events, k) > 1 /\ events[FetchedAt(events, k) - 1][1] = "frontend_redirect"

\* the off-path flag right after the k-th op of the call was handled
OffPathAfterOp(events, k) == events[FetchedAt(events, k)][2] = "OFFPATH"

\* a control-flow op that is a system call or carries the fetch-barrier bit
IsBarrierCf(o) == o.cf_type # "NOT_CF" /\ IsBarrier(o)

\* C25 as stated: a control-flow op that is a system call or a fetch barrier
\* has its recover flags cleared and stalls the producer, leaves off_path as
\* it was and is followed by no redirect of the external front-end, in any
\* mode.
C25_Original ==
  [][\A p \in Cores : TickOf(p) =>
       \A k \in 1..Len(NewOps(p)) :
         LET o == NewOps(p)[k]
         IN  IsBarrierCf(o) =>
               /\ ~o.recover_at_decode /\ ~o.recover_at_exec
               /\ per_core_stalled'[p]
               /\ OffPathAfterOp(last'.events, k) = o.off_path
               /\ ~OpRedirects(last'.events, k)]_vars

\* C25: a control-flow op that is a system call or a fetch barrier has its
\* recover flags cleared and stalls the producer and leaves off_path as it
\* was; it is followed by a redirect of the external front-end exactly when
\* the producer is in trace mode and already off-path and the op is predicted
\* taken.
C25_BarrierControlFlow ==
  [][\A p \in Cores : TickOf(p) =>
       \A k \in 1..Len(NewOps(p)) :
         LET o == NewOps(p)[k]
         IN  IsBarrierCf(o) =>
               /\ ~o.recover_at_decode /\ ~o.recover_at_exec
               /\ per_core_stalled'[p]
               /\ OffPathAfterOp(last'.events, k) = o.off_path
               /\ OpRedirects(last'.events, k)
                    <=> (trace_mode /\ o.off_path /\ o.pred_taken)]_vars

\* a tick has produced a system call while off-path in trace mode and the
\* external front-end was redirected
C25_Witness ==
  /\ last.act = "update_decoupled_fe"
  /\ trace_mode
  /\ per_core_stalled[last.proc]
  /\ per_core_off_path[last.proc]
  /\ \E j \in 1..Len(last.events) : last.events[j][1] = "frontend_redirect"
  /\ per_core_ftq[last.proc] # <<>>
  /\ LET ft == per_core_ftq[last.proc][Len(per_core_ftq[last.proc])]
     IN  ft.ops[Len(ft.ops)].cf_type = "CF_SYS" /\ ft.ops[Len(ft.ops)].off_path


\* C26: the redirect cycle of a core is the cycle of the tick in which the
\* core went from on-path to off-path, a tick of a core that is already
\* off-path leaves it unchanged, and a recovery of an off-path core adds the
\* current cycle minus that cycle to FTQ_OFFPATH_CYCLES.
C26_OffPathDuration ==
  [][\A p \in Cores :
       /\ (TickOf(p) /\ ~per_core_off_path[p] /\ per_core_off_path'[p]) =>
            per_core_redirect_cycle'[p] = cycle_count
       /\ (TickOf(p) /\ per_core_off_path[p]) =>
            per_core_redirect_cycle'[p] = per_core_redirect_cycle[p]
       /\ (last'.act = "recover_decoupled_fe" /\ last'.proc = p
           /\ per_core_off_path[p]) =>
            StatIncrement(last'.events, "FTQ_OFFPATH_CYCLES")
              = cycle_count - per_core_redirect_cycle[p]]_vars


\* the break events of the producer loop that are stat events
BreakStats == {"FTQ_BREAK_FULL_FT", "FTQ_BREAK_MAX_CFS_TAKEN", "FTQ_BREAK_MAX_BYTES",
               "FTQ_BREAK_PRED_BR", "FTQ_BREAK_BAR_FETCH"}

\* the warning the producer prints when the external front-end has no op
NoOpWarning == <<"Warning could not fetch inst from frontend">>

\* how many events of the call are break stat events
BreakStatCount(events) ==
  Cardinality({i \in 1..Len(events) : events[i][1] \in BreakStats})

\* the bytes of the instructions that the tick of core p has completed
TickBytes(p) ==
  SumSeq([k \in 1..Len(NewOps(p)) |->
            IF NewOps(p)[k].eom THEN NewOps(p)[k].size ELSE 0])

\* the ops counted against the taken control-flow budget in the tick of p
TickCfs(p) ==
  Cardinality({k \in 1..Len(NewOps(p)) :
                 LET o == NewOps(p)[k]
                 IN  o.eom /\ ((o.cf_type # "NOT_CF" /\ o.pred_taken) \/ IsBarrier(o))})

\* C27 as stated: every tick emits exactly one break stat event, of the
\* on-path or off-path variant that is the core's state at the break.
C27_Original ==
  [][\A p \in Cores : TickOf(p) =>
       /\ BreakStatCount(last'.events) = 1
       /\ LET e == last'.events[Len(last'.events)]
          IN  /\ e[1] \in BreakStats
              /\ e[2] = (IF per_core_off_path'[p] THEN "OFFPATH" ELSE "ONPATH")]_vars

\* C27: every tick ends on exactly one break, reported by the last event of
\* the call: one of the five break stat events, in the variant of the core's
\* on-path/off-path state at the break, or, when the external front-end
\* cannot yield an op, the warning and no stat event.  The break is the first
\* that applies in the order FTQ full, taken control-flow budget, byte
\* budget, predictor, fetch-barrier stall, external front-end.
C27_BreakConditions ==
  [][\A p \in Cores : TickOf(p) =>
       LET e == last'.events[Len(last'.events)]
           full == Len(per_core_ftq'[p]) = per_core_ftq_ft_num'[p]
           max_cfs == TickCfs(p) = FE_FTQ_TAKEN_CFS_PER_CYCLE
           max_bytes == TickBytes(p) >= FE_FTQ_BYTES_PER_CYCLE
       IN  /\ \/ e = NoOpWarning /\ BreakStatCount(last'.events) = 0
              \/ /\ e[1] \in BreakStats /\ BreakStatCount(last'.events) = 1
                 /\ e[2] = (IF per_core_off_path'[p] THEN "OFFPATH" ELSE "ONPATH")
           /\ \A i \in 1..(Len(last'.events) - 1) : last'.events[i] # NoOpWarning
           /\ (e[1] = "FTQ_BREAK_FULL_FT") <=> full
           /\ (e[1] = "FTQ_BREAK_MAX_CFS_TAKEN") <=> (~full /\ max_cfs)
           /\ (e[1] = "FTQ_BREAK_MAX_BYTES") <=> (~full /\ ~max_cfs /\ max_bytes)
           /\ (e[1] = "FTQ_BREAK_BAR_FETCH") =>
                (~full /\ ~max_cfs /\ ~max_bytes /\ per_core_stalled'[p])
           /\ (e = NoOpWarning) =>
                (~full /\ ~max_cfs /\ ~max_bytes /\ ~per_core_stalled'[p])]_vars

\* an off-path tick has produced an op and ended because the external
\* front-end could not yield another op
C27_Witness ==
  /\ last.act = "update_decoupled_fe"
  /\ last.events[Len(last.events)] = NoOpWarning
  /\ per_core_off_path[last.proc]
  /\ \E i \in 1..Len(last.events) : last.events[i][1] = "FTQ_FETCHED_INS"


\* C28 as stated: while a fetch-barrier stall is pending on a core, a tick of
\* that core emits the FTQ_BREAK_BAR_FETCH event, in the variant of the
\* core's on-path/off-path state, and no other break event.
C28_Original ==
  [][\A p \in Cores : (TickOf(p) /\ per_core_stalled[p]) =>
       /\ BreakStatCount(last'.events) = 1
       /\ last'.events[Len(last'.events)]
            = PathStat("FTQ_BREAK_BAR_FETCH", per_core_off_path[p])]_vars

\* C28: while a fetch-barrier stall is pending on a core, a tick of that core
\* produces no op, leaves the stall pending and emits one break event, in
\* the variant of the core's on-path/off-path state: FTQ_BREAK_FULL_FT when
\* the FTQ is at its depth, and otherwise FTQ_BREAK_PRED_BR or
\* FTQ_BREAK_BAR_FETCH.
C28_StalledTick ==
  [][\A p \in Cores : (TickOf(p) /\ per_core_stalled[p]) =>
       LET e == last'.events[Len(last'.events)]
           full == Len(per_core_ftq[p]) = per_core_ftq_ft_num[p]
       IN  /\ Len(op_pool') = Len(op_pool)
           /\ per_core_ftq'[p] = per_core_ftq[p]
           /\ per_core_stalled'[p]
           /\ BreakStatCount(last'.events) = 1
           /\ e[2] = (IF per_core_off_path[p] THEN "OFFPATH" ELSE "ONPATH")
           /\ full => e[1] = "FTQ_BREAK_FULL_FT"
           /\ ~full => e[1] \in {"FTQ_BREAK_PRED_BR", "FTQ_BREAK_BAR_FETCH"}]_vars

\* a tick of a stalled core whose FTQ is at its depth has ended on
\* FTQ_BREAK_FULL_FT
C28_Witness ==
  /\ last.act = "update_decoupled_fe"
  /\ per_core_stalled[last.proc]
  /\ Len(last.events) = 2
  /\ last.events[2][1] = "FTQ_BREAK_FULL_FT"
  /\ Len(per_core_ftq[last.proc]) = per_core_ftq_ft_num[last.proc]


\* the bytes of the instructions completed by the first n ops of the tick of p
BytesBefore(p, n) ==
  SumSeq([k \in 1..n |-> IF NewOps(p)[k].eom THEN NewOps(p)[k].size ELSE 0])

\* C29: within one tick the produced ops that end their instruction and are
\* predicted-taken control flow, system calls or fetch barriers number at
\* most FE_FTQ_TAKEN_CFS_PER_CYCLE, and every op of the tick is fetched with
\* fewer than FE_FTQ_BYTES_PER_CYCLE bytes of instructions completed before
\* it in the tick, so that the bytes of the tick stay below the budget plus
\* the size of the last instruction completed.
C29_PerCycleBudgets ==
  [][\A p \in Cores : TickOf(p) =>
       /\ TickCfs(p) <= FE_FTQ_TAKEN_CFS_PER_CYCLE
       /\ \A k \in 1..Len(NewOps(p)) :
            /\ BytesBefore(p, k - 1) < FE_FTQ_BYTES_PER_CYCLE
            /\ NewOps(p)[k].eom =>
                 BytesBefore(p, k) < FE_FTQ_BYTES_PER_CYCLE + NewOps(p)[k].size]_vars

\* a tick has produced three ops, two of them micro-ops of one instruction,
\* and has ended on the byte budget
C29_Witness ==
  /\ last.act = "update_decoupled_fe"
  /\ last.events[Len(last.events)][1] = "FTQ_BREAK_MAX_BYTES"
  /\ Cardinality({i \in 1..Len(last.events) :
                    last.events[i][1] = "FTQ_FETCHED_INS"}) = 3


\* the FT has the start of an FT whose first op is appended: 0 without an
\* op, the address of the first op with one
StartOfFirstOp(ft) ==
  IF ft.ops = <<>> THEN ft.start = 0 ELSE ft.start = ft.ops[1].addr

\* the FT was closed by its last op and by no op before it: its length and
\* termination reason are those of the last op
ClosedByLastOp(ft) ==
  LET n == Len(ft.ops)
  IN  /\ \A k \in 1..(n - 1) :
           ft_ended_by_of(ft.ops[k], ICACHE_LINE_SIZE) = "FT_ENDED_BY_INIT"
      /\ ft.ended_by = ft_ended_by_of(ft.ops[n], ICACHE_LINE_SIZE)
      /\ ft.ended_by # "FT_ENDED_BY_INIT"
      /\ ft.length = ft.ops[n].addr + ft.ops[n].size - ft.start

\* the ops of the FT are those of the taken-branch scenario: a 4-byte op at
\* 0x2000 and a 4-byte branch predicted taken at 0x2004
TakenBranchOps(ft) ==
  /\ Len(ft.ops) = 2
  /\ ft.ops[1].addr = 8192 /\ ft.ops[1].size = 4 /\ ft.ops[1].cf_type = "NOT_CF"
  /\ ft.ops[2].addr = 8196 /\ ft.ops[2].size = 4
  /\ ft.ops[2].cf_type = "CF_CBR" /\ ft.ops[2].pred_taken

\* C30: the builder has start 0 without an op and the address of its first
\* op with one, and length 0 and ended_by INIT as long as none of its ops
\* closes the FT; every FT of the FTQ and every in-use FT that holds ops has
\* the address of its first op as start, was closed by its last op and by no
\* other, and has length = last op's address + its size - start; an in-use
\* FT without ops has start 0, length 0 and ended_by INIT.  The ops at
\* 0x2000 (4 bytes) and 0x2004 (4-byte branch predicted taken) are never
\* left in the builder and make the FT (0x2000, 8) closed by TAKEN_BRANCH.
C30_StartAndLength ==
  \A p \in Cores :
    LET cur == per_core_current_ft_to_push[p]
        in_use == per_core_current_ft_in_use[p]
    IN  /\ StartOfFirstOp(cur)
        /\ cur.length = 0 /\ cur.ended_by = "FT_ENDED_BY_INIT"
        /\ \A k \in 1..Len(cur.ops) :
             ft_ended_by_of(cur.ops[k], ICACHE_LINE_SIZE) = "FT_ENDED_BY_INIT"
        /\ \A i \in 1..Len(per_core_ftq[p]) :
             LET ft == per_core_ftq[p][i]
             IN  /\ ft.ops # <<>>
                 /\ StartOfFirstOp(ft)
                 /\ ClosedByLastOp(ft)
                 /\ TakenBranchOps(ft) =>
                      /\ ft.start = 8192 /\ ft.length = 8
                      /\ ft.ended_by = "FT_TAKEN_BRANCH"
        /\ StartOfFirstOp(in_use)
        /\ IF in_use.ops = <<>>
             THEN in_use.length = 0 /\ in_use.ended_by = "FT_ENDED_BY_INIT"
             ELSE ClosedByLastOp(in_use)

\* the FTQ holds the FT of the taken-branch scenario while the builder holds
\* the first micro-op of the next instruction at 0x3000
C30_Witness ==
  /\ per_core_ftq[0] # <<>>
  /\ TakenBranchOps(per_core_ftq[0][1])
  /\ per_core_ftq[0][1].ended_by = "FT_TAKEN_BRANCH"
  /\ Len(per_core_current_ft_to_push[0].ops) = 1
  /\ per_core_current_ft_to_push[0].start = 12288


\* C31: the count that the forward-progress watchdog compares with its limit
\* at a tick of a core is the number of consecutive ticks of that core in
\* which its producer has produced no op: a tick that produces an op
\* restarts it for that core and for no other.
C31_WatchdogPerCore ==
  \A p \in Cores : fwd_progress = op_log[p].idle_ticks


\* the number of ops of the first n FTs of the FTQ
OpsOfFirstFts(ftq, n) == SumSeq([i \in 1..n |-> Len(ftq[i].ops)])

\* C32: in every reachable state every registered iterator has ft_pos at
\* most the number of FTs of the FTQ; below it, op_pos is less than the
\* number of ops of the FT at ft_pos; at it (parked, also on the empty FTQ),
\* op_pos = 0; and flattened_op_pos is the number of ops of the FTs before
\* ft_pos plus op_pos, so that every iterator is (0, 0, 0) while the FTQ is
\* empty.
C32_IteratorPosition ==
  \A p \in Cores : \A i \in 1..Len(per_core_ftq_iterators[p]) :
    LET it == per_core_ftq_iterators[p][i]
        ftq == per_core_ftq[p]
    IN  /\ it.ft_pos >= 0 /\ it.ft_pos <= Len(ftq)
        /\ it.op_pos >= 0
        /\ it.ft_pos < Len(ftq) => it.op_pos < Len(ftq[it.ft_pos + 1].ops)
        /\ it.ft_pos = Len(ftq) => it.op_pos = 0
        /\ it.flattened_op_pos = OpsOfFirstFts(ftq, it.ft_pos) + it.op_pos
        /\ ftq = <<>> => it = decoupled_fe_iter


\* the id of the op that follows the op id in the FIFO order of ftq, 0 when
\* ftq does not hold the op or holds none after it
FtqSuccessor(ftq, id) ==
  LET ids == Ids(Flatten([i \in 1..Len(ftq) |-> ftq[i].ops]))
  IN  IF \E k \in 1..(Len(ids) - 1) : ids[k] = id
        THEN ids[(CHOOSE k \in 1..(Len(ids) - 1) : ids[k] = id) + 1]
        ELSE 0

\* C33: between recoveries and pops, the op that get_next returns to an
\* iterator is the successor, in the FIFO order of the FTQ, of the op that
\* get_next last returned to that iterator.  The formula takes the calls
\* that find a registered iterator at the address the client holds.
C33_Original ==
  [][(/\ last'.act = "ftq_iter_get_next" /\ last'.at # <<>>
      /\ last'.op # 0 /\ last'.prev # 0) =>
       last'.op = FtqSuccessor(per_core_ftq[last'.proc], last'.prev)]_vars


\* the op keeps recover_at_decode or recover_at_exec
KeepsRecovery(o) == o.recover_at_decode \/ o.recover_at_exec

\* C34: in a tick, the first op is stamped with the core's off_path flag and
\* every other op with the flag as the op before it left it; an op that
\* keeps recover_at_decode or recover_at_exec is stamped off_path = false and
\* leaves off_path true; an op stamped off_path = true has both flags clear
\* and leaves off_path true; so at most one op produced between two
\* recoveries keeps a recover flag and every op after it is stamped off-path
\* with the flags clear.  off_path of a core becomes false only in a recovery
\* of that core.
C34_OffPathEpisode ==
  [][\A p \in Cores :
       /\ TickOf(p) =>
            /\ \A k \in 1..Len(NewOps(p)) :
                 LET o == NewOps(p)[k]
                     before == IF k = 1 THEN per_core_off_path[p]
                               ELSE OffPathAfterOp(last'.events, k - 1)
                 IN  /\ o.off_path = before
                     /\ KeepsRecovery(o) =>
                          ~o.off_path /\ OffPathAfterOp(last'.events, k)
                     /\ o.off_path =>
                          ~KeepsRecovery(o) /\ OffPathAfterOp(last'.events, k)
            /\ Cardinality({k \in 1..Len(NewOps(p)) : KeepsRecovery(NewOps(p)[k])}) <= 1
            /\ per_core_off_path'[p] =
                 IF NewOps(p) = <<>> THEN per_core_off_path[p]
                 ELSE OffPathAfterOp(last'.events, Len(NewOps(p)))
       /\ (per_core_off_path[p] /\ ~per_core_off_path'[p]) =>
            (last'.act = "recover_decoupled_fe" /\ last'.proc = p)]_vars

\* an off-path tick has produced a mispredicted branch, stamped off-path and
\* with its recover flags clear, behind the branch that left the path
C34_Witness ==
  /\ last.act = "update_decoupled_fe"
  /\ Len(per_core_ftq[last.proc]) = 2
  /\ LET first == per_core_ftq[last.proc][1].ops[1]
         second == per_core_ftq[last.proc][2].ops[1]
     IN  /\ first.recover_at_exec /\ ~first.off_path
         /\ second.cf_type = "CF_CBR" /\ second.pred_taken
         /\ second.off_path /\ ~KeepsRecovery(second)
         /\ second.id = Len(op_pool)


\* C35: for every op a tick produces, the FTQ_FETCHED_INS statistic
\* incremented for it is OFFPATH exactly when the op is stamped
\* off_path = true, the mispredicted branch that leaves the path included
C35_FetchedStatMatchesStamp ==
  [][\A p \in Cores :
       TickOf(p) =>
         \A k \in 1..Len(NewOps(p)) :
           OffPathAfterOp(last'.events, k) = NewOps(p)[k].off_path]_vars


\* C36: whenever a core's stall flag is set its FT builder is empty: the op
\* that caused the stall has closed its FT and the FT has been pushed
C36_StalledBuilderEmpty ==
  \A p \in Cores :
    per_core_stalled[p] => per_core_current_ft_to_push[p].ops = <<>>


\* C37: every op the producer has allocated is delivered to the consumer, or
\* freed by a recovery, or held at or after the read cursor of the FT builder,
\* of an FTQ entry or of the in-use FT, where fetch_op or a recovery finds it
C37_NoOpLost ==
  \A i \in 1..Len(op_pool) :
    op_pool[i].out \/ op_pool[i].frees > 0 \/ i \in HeldUndeliveredIds


\* C38: a fetch_op that follows the return_op of the op the fetch_op before
\* had delivered delivers that op again, also when the first fetch_op had
\* popped the op's FT from the FTQ; neither the return_op nor the second
\* fetch_op changes the FTQ or an iterator.  A return_op that does not abort
\* found the read cursor of the in-use FT above 0 and the returned op just
\* before it, and moves the cursor back by one; a return_op aborts only when
\* the cursor is 0 or an op other than the one before the cursor is returned.
C38_FetchReturnFetch ==
  [][/\ (last.act = "return_op" /\ last.undoes /\ last'.act = "fetch_op") =>
          /\ last'.ret /\ last'.op = last.op /\ ~last'.popped
          /\ per_core_ftq' = per_core_ftq
          /\ per_core_ftq_iterators' = per_core_ftq_iterators
     /\ last'.act = "return_op" =>
          LET ft == per_core_current_ft_in_use[last'.proc]
          IN  /\ ft.op_pos # 0
              /\ ft.ops[ft.op_pos].id = last'.op
              /\ per_core_current_ft_in_use'[last'.proc].op_pos = ft.op_pos - 1
              /\ per_core_ftq' = per_core_ftq
              /\ per_core_ftq_iterators' = per_core_ftq_iterators
     /\ (last'.act = "abort" /\ last'.in = "decoupled_fe_return_op") =>
          LET ft == per_core_current_ft_in_use[set_proc_id]
          IN  \E op \in 1..Len(op_pool) :
                /\ op_pool[op].out
                /\ ft.op_pos = 0 \/ ft.ops[ft.op_pos].id # op]_vars

\* the second fetch_op has delivered again the first op of an FT that the
\* first fetch_op had popped from the FTQ, with an FT still queued and an
\* iterator on it
C38_Witness ==
  /\ last.act = "fetch_op" /\ last.ret
  /\ last.returned = last.op
  /\ last.returned_popped
  /\ per_core_current_ft_in_use[last.proc].op_pos = 1
  /\ per_core_ftq[last.proc] # <<>>
  /\ per_core_ftq_iterators[last.proc] # <<>>

\* a return_op has aborted on an in-use FT whose read cursor is 0
C38_WitnessAbort ==
  /\ last.act = "abort" /\ last.in = "decoupled_fe_return_op"
  /\ per_core_current_ft_in_use[set_proc_id].op_pos = 0


\* the first address after the I-cache line of the start of the FT
LineEnd(ft) == ROUND_DOWN(ft.start, ICACHE_LINE_SIZE) + ICACHE_LINE_SIZE

\* C40: in every FT a core holds (FTQ, in-use FT, FT builder) every op
\* starts in the I-cache line of the start of the FT, and an op that extends
\* past the end of that line belongs to the last instruction of the FT
C40_OneLinePerFt ==
  \A p \in Cores : \A i \in 1..Len(HeldFts(p)) :
    LET ft == HeldFts(p)[i]
    IN  \A k \in 1..Len(ft.ops) :
          /\ ROUND_DOWN(ft.ops[k].addr, ICACHE_LINE_SIZE)
               = ROUND_DOWN(ft.start, ICACHE_LINE_SIZE)
          /\ ft.ops[k].addr + ft.ops[k].size > LineEnd(ft) =>
               ft.ops[k].addr = ft.ops[Len(ft.ops)].addr

\* the FTQ holds an FT of two instructions whose last one extends past the
\* end of the line, closed on the line boundary, and the FT after it starts
\* inside the next line
C40_Witness ==
  \E p \in Cores :
    /\ Len(per_core_ftq[p]) >= 1
    /\ LET ft == per_core_ftq[p][1]
           n == Len(ft.ops)
       IN  /\ n >= 2
           /\ ft.ops[1].addr # ft.ops[n].addr
           /\ ft.ended_by = "FT_ICACHE_LINE_BOUNDARY"
           /\ ft.start + ft.length > LineEnd(ft)
    /\ \E j \in 1..Len(HeldFts(p)) :
         /\ j > 1
         /\ HeldFts(p)[j].ops # <<>>
         /\ HeldFts(p)[j].start % ICACHE_LINE_SIZE # 0


\* op i is in the FT builder or in the FTQ of a core
InBuilderOrFtq(i) ==
  \E p \in Cores :
    \/ \E k \in 1..Len(per_core_current_ft_to_push[p].ops) :
         per_core_current_ft_to_push[p].ops[k].id = i
    \/ \E f \in 1..Len(per_core_ftq[p]) : \E k \in 1..Len(per_core_ftq[p][f].ops) :
         per_core_ftq[p][f].ops[k].id = i

\* op i has been delivered to the consumer or freed by a recovery
DeliveredOrFreed(i) ==
  i <= Len(op_pool) /\ (op_pool[i].out \/ op_pool[i].frees > 0)

\* the watchdog of lines 226-231 has ended the run: FWD_PROGRESS_LIMIT calls
\* of update_decoupled_fe in a row have produced no op
WatchdogEnded ==
  /\ aborted
  /\ last.in = "update_decoupled_fe"
  /\ fwd_progress + 1 >= FWD_PROGRESS_LIMIT

\* the run has ended where the producer could still go on: an ASSERT other
\* than the watchdog's has aborted the simulator, or the active core is not
\* stalled and the external front-end of the model has run out of ops
RunEnded ==
  \/ aborted /\ ~WatchdogEnded
  \/ ~per_core_stalled[set_proc_id] /\ Len(op_pool) >= MaxOps

\* while a core is stalled with nothing in its FTQ, the op in its FT builder
\* is there, neither delivered nor freed: in SpecWatchdog, in every state of
\* the run of calls that ends with the watchdog's abort, and in the state
\* after the abort
StalledOpStays ==
  \A p \in Cores :
    (per_core_stalled[p] /\ per_core_ftq[p] = <<>>) =>
      /\ per_core_current_ft_to_push[p].ops # <<>>
      /\ \A k \in 1..Len(per_core_current_ft_to_push[p].ops) :
           LET i == per_core_current_ft_to_push[p].ops[k].id
           IN  InBuilderOrFtq(i) /\ ~DeliveredOrFreed(i)

=============================================================================
